---- MODULE Spec2Model ----
(***************************************************************************)
(* Model of the AgentRegistry reconciler of kagent:                        *)
(*   go/internal/controller/agentregistry_controller.go  (the control loop)*)
(*   go/internal/controller/registry/cardgen.go          (card derivation) *)
(*   go/api/v1alpha1/agentcard_types.go                  (the two kinds)   *)
(*                                                                         *)
(* The cluster API is the shared state: Registries, Agents, Services and   *)
(* Cards.  One reconciliation pass per Registry key is a process whose     *)
(* steps are the I/O points of Reconcile: get the Registry, write its      *)
(* status, list Agents, derive and read a Card, probe and apply the Card,  *)
(* write the final status.  The store keeps what an apply sends, spec and  *)
(* status together, as the repository's end-to-end test reads it back      *)
(* (status.hash and status.lastSeen of the stored Card are non-empty).     *)
(***************************************************************************)
EXTENDS Integers, Sequences, FiniteSets, TLC

(***************************************************************************)
(* Bounds of the model.                                                    *)
(***************************************************************************)
MaxClock == 2
MaxEdits == 2
MaxKeys == 6
MaxAdds == 2
MaxGeneration == 2
MaxPorts == 2

(***************************************************************************)
(* Program constants.                                                      *)
(***************************************************************************)
\* A worker pool one larger than the configured one.
OneMoreWorker == 5 + 1

MaxConcurrentReconciles == 5
DefaultSyncIntervalSeconds == 300
A2AControllerPort == 8083

AnnotationRegisterToRegistry == <<"kagent.dev/register-to-registry", "">>
AnnotationDiscoveryDisabled == <<"kagent.dev/discovery-disabled", "">>
AnnotationCapabilities == <<"kagent.dev/capabilities", "">>
AnnotationA2AEndpoint == <<"kagent.dev/a2a-endpoint", "">>
AnnotationCardMetadataPrefix == "kagent.dev/card-"

PhaseNotStarted == "NotStarted"
PhaseDiscovering == "Discovering"
PhaseReady == "Ready"
PhaseError == "Error"

AgentRegistryConditionTypeReady == "Ready"
AgentRegistryConditionTypeDiscovering == "Discovering"
AgentRegistryConditionTypeError == "Error"
AgentCardConditionTypeReady == "Ready"

(***************************************************************************)
(* The population of the cluster.                                          *)
(***************************************************************************)
Registries == {"r1", "r2"}
QueueKeys == 1..MaxKeys
AgentIds == {"a1", "a2"}
NamespaceLabels == [n |-> {"agents=on"}, m |-> {"agents=on", "team=b"}]
Namespaces == DOMAIN NamespaceLabels

NoTime == 0
NoSelector == [set |-> FALSE, matchLabels |-> {}]
NoCard == [exists |-> FALSE]
NoService == [exists |-> FALSE]
NoDeclarative == [set |-> FALSE]
NoBool == {}
NoDuration == {}
InvalidLabel == "agents=on!"

----
(***************************************************************************)
(* Maps with a varying key set (labels, annotations, metadata).            *)
(***************************************************************************)
Has(m, k) == k \in DOMAIN m
Lookup(m, k) == IF k \in DOMAIN m THEN m[k] ELSE ""
Put(m, k, v) == [x \in DOMAIN m \cup {k} |-> IF x = k THEN v ELSE m[x]]
Remove(m, k) == [x \in DOMAIN m \ {k} |-> m[x]]
EmptyMap == [x \in {} |-> ""]

RECURSIVE SeqOfSet(_)
SeqOfSet(S) == IF S = {} THEN <<>>
               ELSE LET x == CHOOSE y \in S : TRUE IN <<x>> \o SeqOfSet(S \ {x})

----
(***************************************************************************)
(* Strings that the code takes apart are sequences of characters.          *)
(* strings.TrimSpace and strings.Split(s, ",") as the code uses them.      *)
(***************************************************************************)
IsSpace(c) == c = " "

RECURSIVE TrimLeft(_)
TrimLeft(s) == IF s # <<>> /\ IsSpace(Head(s)) THEN TrimLeft(Tail(s)) ELSE s

RECURSIVE TrimRight(_)
TrimRight(s) == IF s # <<>> /\ IsSpace(s[Len(s)])
                THEN TrimRight(SubSeq(s, 1, Len(s) - 1)) ELSE s

TrimSpace(s) == TrimRight(TrimLeft(s))

RECURSIVE SplitComma(_, _)
SplitComma(s, cur) ==
    IF s = <<>> THEN <<cur>>
    ELSE IF Head(s) = "," THEN <<cur>> \o SplitComma(Tail(s), <<>>)
    ELSE SplitComma(Tail(s), Append(cur, Head(s)))

ToLower(p) == CASE p = "TCP" -> "tcp"
                [] p = "UDP" -> "udp"
                [] p = "SCTP" -> "sctp"
                [] OTHER -> p

RECURSIVE Join(_)
Join(names) == IF names = <<>> THEN <<>>
               ELSE IF Len(names) = 1 THEN <<names[1]>>
               ELSE <<names[1], ",">> \o Join(Tail(names))

----
(***************************************************************************)
(* cardgen.go: the derivation of a Card from (Registry, Agent, Service).   *)
(***************************************************************************)
extractVersion(agent) ==
    IF Has(agent.labels, "version") THEN agent.labels["version"]
    ELSE IF Has(agent.labels, "app.kubernetes.io/version")
         THEN agent.labels["app.kubernetes.io/version"]
    ELSE ToString(agent.resourceVersion)

\* A source reference that leaves the namespace out.
buildSourceRefNoNamespace(agent) ==
    [apiVersion |-> agent.apiVersion,
     kind       |-> agent.kind,
     name       |-> agent.name,
     namespace  |-> "",
     uid        |-> agent.uid]

buildSourceRef(agent) ==
    [apiVersion |-> agent.apiVersion,
     kind       |-> agent.kind,
     name       |-> agent.name,
     namespace  |-> agent.namespace,
     uid        |-> agent.uid]

\* The Service named like the Agent in the Agent's namespace, or NoService.
findServiceForAgent(svcs, agent) == svcs[<<agent.namespace, agent.name>>]

HasA2AConfig(agent) ==
    agent.spec.declarative.set /\ agent.spec.declarative.a2aConfig.set

\* A resolution that looks at the Service before the A2A config.
extractEndpointsServiceFirst(svcs, agent) ==
    LET service == findServiceForAgent(svcs, agent) IN
    IF Has(agent.annotations, AnnotationA2AEndpoint)
    THEN << [url      |-> agent.annotations[AnnotationA2AEndpoint],
             protocol |-> "http",
             port     |-> 0] >>
    ELSE IF service.exists
    THEN [i \in 1..Len(service.ports) |->
            [url      |-> <<"http://", service.name, ".", service.namespace,
                            ".svc.cluster.local:", service.ports[i].port>>,
             protocol |-> ToLower(service.ports[i].protocol),
             port     |-> service.ports[i].port]]
    ELSE IF HasA2AConfig(agent)
    THEN << [url      |-> <<"http://kagent-controller.kagent.svc.cluster.local:8083/api/a2a/",
                            agent.namespace, "/", agent.name>>,
             protocol |-> "http",
             port     |-> A2AControllerPort] >>
    ELSE <<>>

extractEndpoints(svcs, agent) ==
    IF Has(agent.annotations, AnnotationA2AEndpoint)
    THEN << [url      |-> agent.annotations[AnnotationA2AEndpoint],
             protocol |-> "http",
             port     |-> 0] >>
    ELSE IF HasA2AConfig(agent)
    THEN << [url      |-> <<"http://kagent-controller.kagent.svc.cluster.local:8083/api/a2a/",
                            agent.namespace, "/", agent.name>>,
             protocol |-> "http",
             port     |-> A2AControllerPort] >>
    ELSE LET service == findServiceForAgent(svcs, agent) IN
         IF service.exists
         THEN [i \in 1..Len(service.ports) |->
                 [url      |-> <<"http://", service.name, ".", service.namespace,
                                 ".svc.cluster.local:", service.ports[i].port>>,
                  protocol |-> ToLower(service.ports[i].protocol),
                  port     |-> service.ports[i].port]]
         ELSE <<>>

\* A resolution that keeps the blanks around the items of the annotation.
extractCapabilitiesUntrimmed(agent) ==
    IF Has(agent.annotations, AnnotationCapabilities)
    THEN SplitComma(agent.annotations[AnnotationCapabilities], <<>>)
    ELSE IF HasA2AConfig(agent) /\ Len(agent.spec.declarative.a2aConfig.skills) > 0
    THEN SelectSeq(agent.spec.declarative.a2aConfig.skills, LAMBDA skill : skill # "")
    ELSE <<>>

extractCapabilities(agent) ==
    IF Has(agent.annotations, AnnotationCapabilities)
    THEN LET caps == SplitComma(agent.annotations[AnnotationCapabilities], <<>>)
         IN [i \in 1..Len(caps) |-> TrimSpace(caps[i])]
    ELSE IF HasA2AConfig(agent) /\ Len(agent.spec.declarative.a2aConfig.skills) > 0
    THEN SelectSeq(agent.spec.declarative.a2aConfig.skills, LAMBDA skill : skill # "")
    ELSE <<>>

ToolName(tool) == IF tool.mcpServer # "" THEN tool.mcpServer ELSE tool.agent

ToolNames(tools) ==
    LET named == SelectSeq(tools, LAMBDA tool : ToolName(tool) # "")
    IN [i \in 1..Len(named) |-> ToolName(named[i])]

\* Annotation keys are <<prefix-or-whole-key, suffix>>; a "card-" annotation
\* is <<AnnotationCardMetadataPrefix, suffix>>.
CardAnnotationKeys(agent) ==
    {k \in DOMAIN agent.annotations : k[1] = AnnotationCardMetadataPrefix}

\* A merge in which description, modelConfig and tools overwrite the
\* "card-" annotations of the same name.
extractMetadataAnnotationsFirst(agent) ==
    LET d == agent.spec.declarative
        cardKeys == CardAnnotationKeys(agent)
        base0 == [x \in {k[2] : k \in cardKeys} |->
                     agent.annotations[<<AnnotationCardMetadataPrefix, x>>]]
        base1 == IF agent.spec.description # ""
                 THEN Put(base0, "description", agent.spec.description)
                 ELSE base0
        base2 == IF d.set /\ d.modelConfig # ""
                 THEN Put(base1, "modelConfig", d.modelConfig)
                 ELSE base1
    IN IF d.set /\ Len(d.tools) > 0 /\ Len(ToolNames(d.tools)) > 0
       THEN Put(base2, "tools", Join(ToolNames(d.tools)))
       ELSE base2

extractMetadata(agent) ==
    LET d == agent.spec.declarative
        base1 == IF agent.spec.description # ""
                 THEN Put(EmptyMap, "description", agent.spec.description)
                 ELSE EmptyMap
        base2 == IF d.set /\ d.modelConfig # ""
                 THEN Put(base1, "modelConfig", d.modelConfig)
                 ELSE base1
        base3 == IF d.set /\ Len(d.tools) > 0 /\ Len(ToolNames(d.tools)) > 0
                 THEN Put(base2, "tools", Join(ToolNames(d.tools)))
                 ELSE base2
        cardKeys == CardAnnotationKeys(agent)
    IN [x \in DOMAIN base3 \cup {k[2] : k \in cardKeys} |->
          IF \E k \in cardKeys : k[2] = x
          THEN agent.annotations[<<AnnotationCardMetadataPrefix, x>>]
          ELSE base3[x]]

\* encoding/json with the struct tags of AgentCardSpec: a field tagged
\* omitempty is left out when it holds its zero value.
Marshal(spec) ==
    << <<"name", spec.name>> >>
    \o (IF spec.version # "" THEN << <<"version", spec.version>> >> ELSE <<>>)
    \o << <<"sourceRef", spec.sourceRef>> >>
    \o (IF Len(spec.endpoints) > 0 THEN << <<"endpoints", spec.endpoints>> >> ELSE <<>>)
    \o (IF Len(spec.capabilities) > 0
        THEN << <<"capabilities", spec.capabilities>> >> ELSE <<>>)
    \o (IF spec.a2aVersion # "" THEN << <<"a2aVersion", spec.a2aVersion>> >> ELSE <<>>)
    \o (IF DOMAIN spec.metadata # {} THEN << <<"metadata", spec.metadata>> >> ELSE <<>>)
    \o (IF spec.publicCard.set THEN << <<"publicCard", spec.publicCard>> >> ELSE <<>>)

calculateHash(spec) == [alg |-> "sha256", of |-> Marshal(spec)]

NoPublicCard == [set |-> FALSE]

\* Translator.ToJSON: the public document of a Card spec, as ToA2ACard
\* builds it: the name, the description (of the metadata, or "Agent <name>"),
\* the version (or "1.0.0"), the URL of the first endpoint, one skill per
\* capability (or the default skill), the provider, icon and documentation
\* URL of the metadata, and the protocol version when there is one.
ToJSON(spec) ==
    [set              |-> TRUE,
     name             |-> spec.name,
     description      |-> IF Lookup(spec.metadata, "description") # ""
                          THEN <<spec.metadata["description"]>>
                          ELSE <<"Agent ", spec.name>>,
     version          |-> IF spec.version # "" THEN spec.version ELSE "1.0.0",
     url              |-> IF Len(spec.endpoints) > 0 THEN spec.endpoints[1].url ELSE <<>>,
     skills           |-> IF Len(spec.capabilities) = 0
                          THEN << [id |-> <<"default">>, name |-> <<"General Purpose">>] >>
                          ELSE [i \in 1..Len(spec.capabilities) |->
                                  [id |-> <<"skill-", i - 1>>, name |-> spec.capabilities[i]]],
     provider         |-> IF Has(spec.metadata, "provider.organization")
                          THEN {[organization |-> spec.metadata["provider.organization"],
                                 url          |-> IF Has(spec.metadata, "provider.url")
                                                  THEN {spec.metadata["provider.url"]}
                                                  ELSE {}]}
                          ELSE {},
     iconUrl          |-> Lookup(spec.metadata, "iconUrl"),
     documentationUrl |-> Lookup(spec.metadata, "documentationUrl"),
     protocolVersion  |-> IF spec.a2aVersion # "" THEN {spec.a2aVersion} ELSE {}]

\* A derivation that hashes the spec before the public document is set.
GenerateCardHashFirst(agentRegistry, agent, svcs, translate, t) ==
    LET spec0 == [name         |-> agent.name,
                  version      |-> extractVersion(agent),
                  sourceRef    |-> buildSourceRef(agent),
                  endpoints    |-> extractEndpoints(svcs, agent),
                  capabilities |-> extractCapabilities(agent),
                  a2aVersion   |-> agentRegistry.spec.a2aVersion,
                  metadata     |-> extractMetadata(agent),
                  publicCard   |-> NoPublicCard]
        spec1 == IF translate = "ok"
                 THEN [spec0 EXCEPT !.publicCard = ToJSON(spec0)]
                 ELSE spec0
    IN [exists          |-> TRUE,
        name            |-> agent.name,
        namespace       |-> agent.namespace,
        ownerReferences |-> <<>>,
        spec            |-> spec1,
        status          |-> [hash               |-> calculateHash(spec0),
                             lastSeen           |-> t,
                             endpointHealthy    |-> NoBool,
                             conditions         |->
                                << [type               |-> AgentCardConditionTypeReady,
                                    status             |-> "True",
                                    observedGeneration |-> agent.generation,
                                    lastTransitionTime |-> t,
                                    reason             |-> "Generated",
                                    message            |-> "AgentCard generated successfully"] >>,
                             observedGeneration |-> agent.generation]]

\* A derivation that hashes the time of the derivation with the spec.
GenerateCardHashTime(agentRegistry, agent, svcs, translate, t) ==
    LET spec0 == [name         |-> agent.name,
                  version      |-> extractVersion(agent),
                  sourceRef    |-> buildSourceRef(agent),
                  endpoints    |-> extractEndpoints(svcs, agent),
                  capabilities |-> extractCapabilities(agent),
                  a2aVersion   |-> agentRegistry.spec.a2aVersion,
                  metadata     |-> extractMetadata(agent),
                  publicCard   |-> NoPublicCard]
        spec1 == IF translate = "ok"
                 THEN [spec0 EXCEPT !.publicCard = ToJSON(spec0)]
                 ELSE spec0
    IN [exists          |-> TRUE,
        name            |-> agent.name,
        namespace       |-> agent.namespace,
        ownerReferences |-> <<>>,
        spec            |-> spec1,
        status          |-> [hash               |-> [alg |-> "sha256",
                                                     of  |-> Marshal(spec1) \o << <<"lastSeen", t>> >>],
                             lastSeen           |-> t,
                             endpointHealthy    |-> NoBool,
                             conditions         |->
                                << [type               |-> AgentCardConditionTypeReady,
                                    status             |-> "True",
                                    observedGeneration |-> agent.generation,
                                    lastTransitionTime |-> t,
                                    reason             |-> "Generated",
                                    message            |-> "AgentCard generated successfully"] >>,
                             observedGeneration |-> agent.generation]]

\* translate is "ok" (translator set and succeeding), "err" or "nil".
GenerateCard(agentRegistry, agent, svcs, translate, t) ==
    LET spec0 == [name         |-> agent.name,
                  version      |-> extractVersion(agent),
                  sourceRef    |-> buildSourceRef(agent),
                  endpoints    |-> extractEndpoints(svcs, agent),
                  capabilities |-> extractCapabilities(agent),
                  a2aVersion   |-> agentRegistry.spec.a2aVersion,
                  metadata     |-> extractMetadata(agent),
                  publicCard   |-> NoPublicCard]
        spec1 == IF translate = "ok"
                 THEN [spec0 EXCEPT !.publicCard = ToJSON(spec0)]
                 ELSE spec0
    IN [exists          |-> TRUE,
        name            |-> agent.name,
        namespace       |-> agent.namespace,
        ownerReferences |-> <<>>,
        spec            |-> spec1,
        status          |-> [hash               |-> calculateHash(spec1),
                             lastSeen           |-> t,
                             endpointHealthy    |-> NoBool,
                             conditions         |->
                                << [type               |-> AgentCardConditionTypeReady,
                                    status             |-> "True",
                                    observedGeneration |-> agent.generation,
                                    lastTransitionTime |-> t,
                                    reason             |-> "Generated",
                                    message            |-> "AgentCard generated successfully"] >>,
                             observedGeneration |-> agent.generation]]

----
(***************************************************************************)
(* health/checker.go: the prober.  What an endpoint answers to the HEAD    *)
(* request is its status code, or 0 when the request fails (no             *)
(* connection, timeout, context cancelled).                                *)
(***************************************************************************)
Answers == {0, 101, 200, 499, 500}

\* A check that takes only a 2xx status for healthy.
checkEndpointSuccessOnly(answer) ==
    [healthy |-> answer >= 200 /\ answer < 300, err |-> answer = 0]

checkEndpoint(answer) ==
    [healthy |-> answer >= 200 /\ answer < 500, err |-> answer = 0]

\* The loop of CheckEndpoints from the endpoint i on.  The context is
\* cancelled from the endpoint cancelAt on: every request from then on
\* fails.  calls counts the calls of checkEndpoint.
RECURSIVE CheckFrom(_, _, _, _)
CheckFrom(i, n, answers, cancelAt) ==
    IF i > n
    THEN [healthy |-> FALSE, err |-> "all endpoints unhealthy", calls |-> n]
    ELSE LET c == checkEndpoint(IF i >= cancelAt THEN 0 ELSE answers[i])
         IN IF c.err THEN CheckFrom(i + 1, n, answers, cancelAt)
            ELSE IF c.healthy THEN [healthy |-> TRUE, err |-> "", calls |-> i]
            ELSE CheckFrom(i + 1, n, answers, cancelAt)

CheckEndpoints(endpoints, answers, cancelAt) ==
    IF Len(endpoints) = 0
    THEN [healthy |-> FALSE, err |-> "no endpoints to check", calls |-> 0]
    ELSE CheckFrom(1, Len(endpoints), answers, cancelAt)

----
(***************************************************************************)
(* State.                                                                  *)
(***************************************************************************)
VARIABLES
    registries,       \* cluster: the stored AgentRegistry objects
    agents,           \* cluster: the stored Agent objects
    services,         \* cluster: the stored Services, by <<namespace, name>>
    cards,            \* cluster: the stored AgentCards, by <<namespace, name>>
    now,              \* the wall clock read by metav1.Now()
    pc,               \* per Registry key: where its pass stands
    reg,              \* per pass: the AgentRegistry object held in memory
    selected,         \* per pass: the Agents returned by discoverAgents
    idx,              \* per pass: position of the loop over the Agents
    registeredCount,  \* per pass: the counter of reconcileAgentRegistry
    card,             \* per pass: the Card derived for the current Agent
    skipped,          \* per pass: keys of the Cards it left alone (dedup fast path)
    applied,          \* per pass: keys of the Cards it sent an apply for
    failed,           \* per pass: keys of the Agents whose step returned an error
    result,           \* per Registry key: what the last Reconcile returned
    probe,            \* per pass: its last call of CheckEndpoints and what came of it
    quiet,            \* per Registry key: cluster as its last pass left it, if untouched since
    queue,            \* workqueue: the keys waiting for a worker, in order
    dirty,            \* workqueue: the keys that need a pass
    inflight,         \* workqueue: per key, the number of passes running for it
    addsDuring        \* per key: enqueues since its running pass was handed out

vars == <<registries, agents, services, cards, now, pc, reg, selected, idx,
          registeredCount, card, skipped, applied, failed, result, probe, quiet,
          queue, dirty, inflight, addsDuring>>

queueVars == <<queue, dirty, inflight, addsDuring>>

clusterVars == <<registries, agents, services, cards>>
passVars == <<pc, reg, selected, idx, registeredCount, card, skipped, applied, failed, result,
              probe>>

AgentHome == [a1 |-> "n", a2 |-> "m"]
CardKey(a) == <<AgentHome[a], a>>
CardKeys == {CardKey(a) : a \in AgentIds}

NoRegistry == [exists |-> FALSE]
NoResult == [err |-> "none", requeueAfter |-> 0, returned |-> FALSE]
NoQuiet == [set |-> FALSE]
NoProbe == [set |-> FALSE]

InitialAgent(a) ==
    [name            |-> a,
     namespace       |-> AgentHome[a],
     uid             |-> <<"uid", a>>,
     apiVersion      |-> "kagent.dev/v1alpha2",
     kind            |-> "Agent",
     resourceVersion |-> 1,
     generation      |-> 1,
     labels          |-> EmptyMap,
     annotations     |-> [k \in {AnnotationRegisterToRegistry} |-> "true"],
     spec            |-> [description |-> "hello", declarative |-> NoDeclarative]]

InitialService(k) ==
    IF k = CardKey("a1")
    THEN [exists |-> TRUE, name |-> k[2], namespace |-> k[1], resourceVersion |-> 1,
          ports |-> << [name |-> "http", port |-> 8080, protocol |-> "TCP"] >>]
    ELSE NoService

InitialRegistry(r, enabled, selector, version) ==
    [exists     |-> TRUE,
     name       |-> r,
     namespace  |-> "n",
     uid        |-> <<"uid", r>>,
     apiVersion |-> "kagent.dev/v1alpha1",
     kind       |-> "AgentRegistry",
     generation |-> 1,
     spec       |-> [enableAutoDiscovery |-> enabled,
                     namespaceSelector   |-> selector,
                     syncInterval        |-> NoDuration,
                     a2aVersion          |-> version],
     status     |-> [phase              |-> "",
                     registeredAgents   |-> 0,
                     lastSync           |-> NoTime,
                     conditions         |-> <<>>,
                     observedGeneration |-> 0]]

Everywhere == [set |-> TRUE, matchLabels |-> {"agents=on"}]

InitCluster(regs, ags, svcs) ==
    /\ registries = regs
    /\ agents = ags
    /\ services = svcs
    /\ cards = [k \in CardKeys |-> NoCard]
    /\ now = 1
    /\ pc = [r \in Registries |-> "idle"]
    /\ reg = [r \in Registries |-> NoRegistry]
    /\ selected = [r \in Registries |-> <<>>]
    /\ idx = [r \in Registries |-> 0]
    /\ registeredCount = [r \in Registries |-> 0]
    /\ card = [r \in Registries |-> NoCard]
    /\ skipped = [r \in Registries |-> {}]
    /\ applied = [r \in Registries |-> {}]
    /\ failed = [r \in Registries |-> {}]
    /\ result = [r \in Registries |-> NoResult]
    /\ probe = [r \in Registries |-> NoProbe]
    /\ quiet = [r \in Registries |-> NoQuiet]
    /\ queue = <<>>
    /\ dirty = {}
    /\ inflight = [k \in QueueKeys |-> 0]
    /\ addsDuring = [k \in QueueKeys |-> 0]

InitWith(regs) ==
    InitCluster(regs, [a \in AgentIds |-> InitialAgent(a)],
                [k \in CardKeys |-> InitialService(k)])

Init ==
    LET \* One Registry: r1 in namespace n, searching n only (Agent a1), or every
        \* namespace labelled agents=on (Agents a1 and a2), or with discovery off.
        SoloConfigs ==
            {[enabled |-> TRUE, selector |-> NoSelector],
             [enabled |-> TRUE, selector |-> Everywhere],
             [enabled |-> FALSE, selector |-> NoSelector]}
    IN
    \E c \in SoloConfigs :
        InitWith([r \in Registries |->
                    IF r = "r1"
                    THEN InitialRegistry(r, c.enabled, c.selector, "0.3.0")
                    ELSE NoRegistry])

\* Two Registries in namespace n: r1 searches n, r2 every namespace
\* labelled agents=on, so both select the Agent a1; r2 stamps the same or
\* another protocol version.
InitOverlap ==
    \E v \in {"0.3.0", "0.2.0"} :
        InitWith([r \in Registries |->
                    IF r = "r1"
                    THEN InitialRegistry(r, TRUE, NoSelector, "0.3.0")
                    ELSE InitialRegistry(r, TRUE, Everywhere, v)])

----
(***************************************************************************)
(* agentregistry_controller.go: the pure parts.                            *)
(***************************************************************************)
\* An observed generation that counts the status writes.
GenerationCounted(agentRegistry) == agentRegistry.status.observedGeneration + 1

\* agentRegistry.Generation, of the object held in memory.
Generation(agentRegistry) == agentRegistry.generation

\* An updateStatus that reports the condition of the phase alone.
updateStatusSingle(agentRegistry, phase, message, registeredAgents, t) ==
    [agentRegistry EXCEPT
       !.status = [phase              |-> phase,
                   registeredAgents   |-> registeredAgents,
                   observedGeneration |-> Generation(agentRegistry),
                   lastSync           |-> t,
                   conditions         |->
                       << [type               |-> IF phase = PhaseError
                                                  THEN AgentRegistryConditionTypeError
                                                  ELSE IF phase = PhaseDiscovering
                                                  THEN AgentRegistryConditionTypeDiscovering
                                                  ELSE AgentRegistryConditionTypeReady,
                           status             |-> "True",
                           observedGeneration |-> Generation(agentRegistry),
                           lastTransitionTime |-> t,
                           reason             |-> IF phase = PhaseError THEN "ReconciliationFailed"
                                                  ELSE IF phase = PhaseDiscovering THEN "DiscoveringAgents"
                                                  ELSE "ReconciliationSucceeded",
                           message            |-> message] >>]]

\* updateStatus, on the object held in memory.
updateStatus(agentRegistry, phase, message, registeredAgents, t) ==
    LET condition ==
            [type               |-> IF phase = PhaseError
                                    THEN AgentRegistryConditionTypeError
                                    ELSE IF phase = PhaseDiscovering
                                    THEN AgentRegistryConditionTypeDiscovering
                                    ELSE AgentRegistryConditionTypeReady,
             status             |-> "True",
             observedGeneration |-> Generation(agentRegistry),
             lastTransitionTime |-> t,
             reason             |-> IF phase = PhaseError THEN "ReconciliationFailed"
                                    ELSE IF phase = PhaseDiscovering THEN "DiscoveringAgents"
                                    ELSE "ReconciliationSucceeded",
             message            |-> message]
        existingConditions == agentRegistry.status.conditions
        hits == {i \in 1..Len(existingConditions) :
                    existingConditions[i].type = condition.type}
        first == CHOOSE i \in hits : \A j \in hits : i <= j
    IN [agentRegistry EXCEPT
          !.status = [phase              |-> phase,
                      registeredAgents   |-> registeredAgents,
                      observedGeneration |-> Generation(agentRegistry),
                      lastSync           |-> t,
                      conditions         |->
                          IF hits # {}
                          THEN [existingConditions EXCEPT ![first] = condition]
                          ELSE Append(existingConditions, condition)]]

\* The seconds held by a *metav1.Duration that is set.
Duration(d) == CHOOSE x \in d : TRUE

\* A requeue delay that takes no notice of the configured interval.
syncIntervalDefault(agentRegistry) == DefaultSyncIntervalSeconds

\* A requeue delay that falls back to the default for an interval of zero.
syncIntervalPositive(agentRegistry) ==
    IF agentRegistry.spec.syncInterval # NoDuration
       /\ Duration(agentRegistry.spec.syncInterval) > 0
    THEN Duration(agentRegistry.spec.syncInterval)
    ELSE DefaultSyncIntervalSeconds

\* The requeue delay of Reconcile, in seconds: the configured interval if
\* the pointer is set, whatever it holds, and the default if it is nil.
syncInterval(agentRegistry) ==
    IF agentRegistry.spec.syncInterval # NoDuration
    THEN Duration(agentRegistry.spec.syncInterval)
    ELSE DefaultSyncIntervalSeconds

\* r.Client.Status().Update: the stored object takes the status sent.
StatusUpdate(stored, agentRegistry) ==
    [stored EXCEPT !.status = agentRegistry.status]

\* The API takes the status update: the call itself goes through (wrote),
\* the Registry is still there, and the copy sent is of the stored
\* generation (an update from a copy that a spec edit has overtaken is
\* refused as a conflict).
Accepted(stored, agentRegistry, wrote) ==
    wrote /\ stored.exists /\ stored.generation = agentRegistry.generation

\* updateStatus from its Status().Update on: a refused update is logged
\* and the stored object stays as it was.
StatusWrite(stored, agentRegistry, wrote) ==
    IF Accepted(stored, agentRegistry, wrote)
    THEN StatusUpdate(stored, agentRegistry)
    ELSE stored

\* A Reconcile that turns a refused status update into an error.
ReturnedOrError(agentRegistry, written) ==
    IF written
    THEN [err |-> "none", requeueAfter |-> syncInterval(agentRegistry), returned |-> TRUE]
    ELSE [err |-> "error", requeueAfter |-> 0, returned |-> TRUE]

\* What Reconcile returns when reconcileAgentRegistry returned nil; written
\* tells whether the last status update was taken, which Reconcile does
\* not get to know.
Returned(agentRegistry, written) ==
    [err |-> "none", requeueAfter |-> syncInterval(agentRegistry), returned |-> TRUE]

\* What Reconcile returns when reconcileAgentRegistry returned an error.
ReturnedError == [err |-> "error", requeueAfter |-> 0, returned |-> TRUE]

\* What Reconcile returns when the Registry is not found.
ReturnedNotFound == [err |-> "none", requeueAfter |-> 0, returned |-> TRUE]

filterAgentsByAnnotation(list) ==
    LET Keep(agent) ==
            /\ Lookup(agent.annotations, AnnotationRegisterToRegistry) = "true"
            /\ Lookup(agent.annotations, AnnotationDiscoveryDisabled) # "true"
    IN SelectSeq(list, Keep)

\* metav1.LabelSelectorAsSelector fails on a label that is no valid
\* requirement.
ValidSelector(selector) == InvalidLabel \notin selector.matchLabels

getMatchingNamespaces(selector) ==
    SeqOfSet({ns \in Namespaces : selector.matchLabels \subseteq NamespaceLabels[ns]})

\* r.Client.List of the Agents of one namespace.
ListAgents(ags, ns) ==
    LET ids == SeqOfSet({a \in AgentIds : ags[a].namespace = ns})
    IN [i \in 1..Len(ids) |-> ags[ids[i]]]

\* The loop over the matching namespaces: a namespace whose List fails
\* (it is in lost) is logged and passed over.
RECURSIVE ListAgentsIn(_, _, _)
ListAgentsIn(ags, namespaces, lost) ==
    IF namespaces = <<>> THEN <<>>
    ELSE (IF Head(namespaces) \in lost THEN <<>> ELSE ListAgents(ags, Head(namespaces)))
         \o ListAgentsIn(ags, Tail(namespaces), lost)

Discovered(items) == [err |-> FALSE, items |-> items]
DiscoveryError == [err |-> TRUE, items |-> <<>>]

\* An enumeration that looks into the Registry's own namespace only.
discoverAgentsOwnNamespace(agentRegistry, ags, nsListed, lost) ==
    IF agentRegistry.namespace \in lost THEN DiscoveryError
    ELSE Discovered(filterAgentsByAnnotation(ListAgents(ags, agentRegistry.namespace)))

\* An enumeration that searches the Registry's own namespace as well,
\* whether or not the selector matches it.
discoverAgentsAndOwn(agentRegistry, ags, nsListed, lost) ==
    IF agentRegistry.spec.namespaceSelector.set
    THEN IF ~ValidSelector(agentRegistry.spec.namespaceSelector) \/ ~nsListed
         THEN DiscoveryError
         ELSE Discovered(filterAgentsByAnnotation(
                  ListAgentsIn(ags,
                      SeqOfSet({ns \in Namespaces :
                          \/ ns = agentRegistry.namespace
                          \/ agentRegistry.spec.namespaceSelector.matchLabels
                                \subseteq NamespaceLabels[ns]}),
                      lost)))
    ELSE IF agentRegistry.namespace \in lost THEN DiscoveryError
    ELSE Discovered(filterAgentsByAnnotation(ListAgents(ags, agentRegistry.namespace)))

\* nsListed: the List of the namespaces succeeds; lost: the namespaces in
\* which the List of the Agents fails.
discoverAgents(agentRegistry, ags, nsListed, lost) ==
    IF agentRegistry.spec.namespaceSelector.set
    THEN IF ~ValidSelector(agentRegistry.spec.namespaceSelector) \/ ~nsListed
         THEN DiscoveryError
         ELSE Discovered(filterAgentsByAnnotation(
                  ListAgentsIn(ags, getMatchingNamespaces(agentRegistry.spec.namespaceSelector),
                               lost)))
    ELSE IF agentRegistry.namespace \in lost THEN DiscoveryError
    ELSE Discovered(filterAgentsByAnnotation(ListAgents(ags, agentRegistry.namespace)))

OwnerReference(agentRegistry) ==
    [apiVersion |-> agentRegistry.apiVersion,
     kind       |-> agentRegistry.kind,
     name       |-> agentRegistry.name,
     uid        |-> agentRegistry.uid,
     controller |-> TRUE]

\* A dedup test that compares the whole status, not the hash alone.
UnchangedStatus(old, new) == old.exists /\ old.status = new.status

\* The dedup test of reconcileAgentCard.
Unchanged(old, new) == old.exists /\ old.status.hash = new.status.hash

\* An apply that stores the spec and the owner but not the content hash.
ServerSideApplySpecOnly(old, new) ==
    [new EXCEPT !.status.hash = [alg |-> "none", of |-> <<>>]]

\* An apply that leaves the status of a Card that exists as it was.
ServerSideApplyKeepStatus(old, new) ==
    IF old.exists THEN [new EXCEPT !.status = old.status] ELSE new

\* An apply that leaves the owner references of a Card that exists as they were.
ServerSideApplyFirstOwner(old, new) ==
    IF old.exists THEN [new EXCEPT !.ownerReferences = old.ownerReferences] ELSE new

\* r.Client.Patch(card, client.Apply, ForceOwnership, FieldOwner(...)): every
\* Registry applies under the one field manager, so the fields the manager
\* held and no longer declares are dropped and the declared ones are set.
ServerSideApply(old, new) == new

----
(***************************************************************************)
(* The steps of one pass of Reconcile(req) for the Registry key r.         *)
(***************************************************************************)
\* A write by the pass of r ends the quiet period of every other Registry.
Disturb(r) == [x \in Registries |-> IF x = r THEN quiet[x] ELSE NoQuiet]

\* The pass of r has returned with the Agents still as it listed them: what
\* it left behind, and whether the cluster was untouched since its previous
\* pass returned (passes counts up to 2).
Settled(r, cs, stored, okKeys) ==
    [x \in Registries |->
        IF x = r
        THEN [set    |-> TRUE,
              cards  |-> cs,
              status |-> stored.status,
              ok     |-> okKeys,
              passes |-> IF quiet[r].set THEN 2 ELSE 1]
        ELSE NoQuiet]

EndPass(r, res) ==
    /\ pc' = [pc EXCEPT ![r] = "idle"]
    /\ reg' = [reg EXCEPT ![r] = NoRegistry]
    /\ selected' = [selected EXCEPT ![r] = <<>>]
    /\ idx' = [idx EXCEPT ![r] = 0]
    /\ registeredCount' = [registeredCount EXCEPT ![r] = 0]
    /\ card' = [card EXCEPT ![r] = NoCard]
    /\ skipped' = [skipped EXCEPT ![r] = {}]
    /\ applied' = [applied EXCEPT ![r] = {}]
    /\ failed' = [failed EXCEPT ![r] = {}]
    /\ probe' = [probe EXCEPT ![r] = NoProbe]
    /\ result' = [result EXCEPT ![r] = res]

\* Reconcile of a Registry with auto-discovery off: get the Registry,
\* write status NotStarted, return with the requeue delay.
DisabledPass(r, wrote) ==
    /\ pc[r] = "idle"
    /\ registries[r].exists
    /\ ~registries[r].spec.enableAutoDiscovery
    /\ LET obj == updateStatus(registries[r], PhaseNotStarted,
                               "Auto-discovery disabled", 0, now)
           stored == StatusWrite(registries[r], obj, wrote)
       IN /\ registries' = [registries EXCEPT ![r] = stored]
          /\ quiet' = Settled(r, cards, stored, {})
          /\ EndPass(r, Returned(obj, Accepted(registries[r], obj, wrote)))
    /\ UNCHANGED <<agents, services, cards, now>>
    /\ UNCHANGED queueVars

\* Reconcile up to the loop over the Agents: get the Registry, pre-mark
\* its status Discovering, enumerate and filter the Agents.  A failed
\* enumeration leaves the pass before its error return.
Begin(r, wrote, nsListed, lost) ==
    /\ pc[r] = "idle"
    /\ registries[r].exists
    /\ registries[r].spec.enableAutoDiscovery
    /\ LET obj == updateStatus(registries[r], PhaseDiscovering, "Discovering agents", 0, now)
           found == discoverAgents(obj, agents, nsListed, lost)
       IN /\ reg' = [reg EXCEPT ![r] = obj]
          /\ registries' = [registries EXCEPT ![r] = StatusWrite(registries[r], obj, wrote)]
          /\ selected' = [selected EXCEPT ![r] = found.items]
          /\ pc' = [pc EXCEPT ![r] = IF found.err THEN "error"
                                     ELSE IF Len(found.items) = 0 THEN "finalize"
                                     ELSE "card"]
    /\ idx' = [idx EXCEPT ![r] = 1]
    /\ registeredCount' = [registeredCount EXCEPT ![r] = 0]
    /\ result' = [result EXCEPT ![r] = NoResult]
    /\ quiet' = Disturb(r)
    /\ UNCHANGED <<agents, services, cards, now, card, skipped, applied, failed>>
    /\ UNCHANGED queueVars
    /\ UNCHANGED probe

\* A loop that counts every Agent it has gone through.
AdvanceCountAll(r, counted) ==
    /\ idx' = [idx EXCEPT ![r] = idx[r] + 1]
    /\ registeredCount' = [registeredCount EXCEPT ![r] = registeredCount[r] + 1]
    /\ pc' = [pc EXCEPT ![r] = IF idx[r] + 1 > Len(selected[r]) THEN "finalize" ELSE "card"]
    /\ card' = [card EXCEPT ![r] = NoCard]

\* A loop that ends at the first Agent whose step failed.
AdvanceOrStop(r, counted) ==
    /\ idx' = [idx EXCEPT ![r] = idx[r] + 1]
    /\ registeredCount' = [registeredCount EXCEPT ![r] =
                             IF counted THEN registeredCount[r] + 1 ELSE registeredCount[r]]
    /\ pc' = [pc EXCEPT ![r] = IF ~counted \/ idx[r] + 1 > Len(selected[r])
                               THEN "finalize" ELSE "card"]
    /\ card' = [card EXCEPT ![r] = NoCard]

\* The loop of reconcileAgentRegistry moves to the next Agent.
Advance(r, counted) ==
    /\ idx' = [idx EXCEPT ![r] = idx[r] + 1]
    /\ registeredCount' = [registeredCount EXCEPT ![r] =
                             IF counted THEN registeredCount[r] + 1 ELSE registeredCount[r]]
    /\ pc' = [pc EXCEPT ![r] = IF idx[r] + 1 > Len(selected[r]) THEN "finalize" ELSE "card"]
    /\ card' = [card EXCEPT ![r] = NoCard]

\* What the Get of findServiceForAgent leaves the generator with: the
\* Services stored, or none when the Get fails (got false).
ServicesSeen(svcs, got) == IF got THEN svcs ELSE [k \in DOMAIN svcs |-> NoService]

\* The Card that the pass of r derives for the Agent its loop stands at.
DerivedWith(r, got, translate) ==
    GenerateCard(reg[r], selected[r][idx[r]], ServicesSeen(services, got), translate, now)

\* A step that gives the Agent up when the translator has not answered.
CardStepTranslatorFatal(r, read, got, translate) ==
    /\ pc[r] = "card"
    /\ LET new == DerivedWith(r, got, translate)
           key == <<new.namespace, new.name>>
       IN IF ~read \/ translate # "ok"
          THEN /\ Advance(r, FALSE)
               /\ failed' = [failed EXCEPT ![r] = failed[r] \cup {key}]
               /\ UNCHANGED skipped
          ELSE IF Unchanged(cards[key], new)
          THEN /\ Advance(r, TRUE)
               /\ skipped' = [skipped EXCEPT ![r] = skipped[r] \cup {key}]
               /\ UNCHANGED failed
          ELSE /\ card' = [card EXCEPT ![r] = new]
               /\ pc' = [pc EXCEPT ![r] = "apply"]
               /\ UNCHANGED <<idx, registeredCount, skipped, failed>>
    /\ UNCHANGED <<clusterVars, now, reg, selected, applied, result, quiet>>
    /\ UNCHANGED queueVars
    /\ UNCHANGED probe

\* A step whose fast path refreshes status.lastSeen of the stored Card.
CardStepRefreshing(r, read, got, translate) ==
    /\ pc[r] = "card"
    /\ LET new == DerivedWith(r, got, translate)
           key == <<new.namespace, new.name>>
       IN IF ~read
          THEN /\ Advance(r, FALSE)
               /\ failed' = [failed EXCEPT ![r] = failed[r] \cup {key}]
               /\ UNCHANGED <<skipped, cards>>
          ELSE IF Unchanged(cards[key], new)
          THEN /\ Advance(r, TRUE)
               /\ skipped' = [skipped EXCEPT ![r] = skipped[r] \cup {key}]
               /\ cards' = [cards EXCEPT ![key].status.lastSeen = now]
               /\ UNCHANGED failed
          ELSE /\ card' = [card EXCEPT ![r] = new]
               /\ pc' = [pc EXCEPT ![r] = "apply"]
               /\ UNCHANGED <<idx, registeredCount, skipped, failed, cards>>
    /\ UNCHANGED <<registries, agents, services, now, reg, selected, applied, result, quiet>>
    /\ UNCHANGED queueVars
    /\ UNCHANGED probe

\* reconcileAgentCard up to the dedup test: derive, read the stored Card.
\* read tells whether the Get of the stored Card goes through; a Get that
\* fails otherwise than with NotFound ends the step with an error; got
\* tells whether the Get of the Agent's Service goes through.
CardStep(r, read, got, translate) ==
    /\ pc[r] = "card"
    /\ LET new == DerivedWith(r, got, translate)
           key == <<new.namespace, new.name>>
       IN IF ~read
          THEN /\ Advance(r, FALSE)
               /\ failed' = [failed EXCEPT ![r] = failed[r] \cup {key}]
               /\ UNCHANGED skipped
          ELSE IF Unchanged(cards[key], new)
          THEN /\ Advance(r, TRUE)
               /\ skipped' = [skipped EXCEPT ![r] = skipped[r] \cup {key}]
               /\ UNCHANGED failed
          ELSE /\ card' = [card EXCEPT ![r] = new]
               /\ pc' = [pc EXCEPT ![r] = "apply"]
               /\ UNCHANGED <<idx, registeredCount, skipped, failed>>
    /\ UNCHANGED <<clusterVars, now, reg, selected, applied, result, quiet>>
    /\ UNCHANGED queueVars
    /\ UNCHANGED probe

\* A health check that probes a Card without endpoints too.
ProbedAlways(c, healthy) ==
    [c EXCEPT !.status.endpointHealthy = {healthy}]

\* A health check that leaves the field unset when the probe failed.
ProbedWhenHealthy(c, healthy) ==
    IF Len(c.spec.endpoints) > 0 /\ healthy
    THEN [c EXCEPT !.status.endpointHealthy = {healthy}]
    ELSE c

\* The health check of reconcileAgentCard: a Card with endpoints takes
\* what CheckEndpoints answered, error or not; one without is not probed.
Probed(c, healthy) ==
    IF Len(c.spec.endpoints) > 0
    THEN [c EXCEPT !.status.endpointHealthy = {healthy}]
    ELSE c

\* An apply that marks the Agent it has registered with an annotation.
ApplyCardStamping(r, healthy, ok) ==
    /\ pc[r] = "apply"
    /\ LET probed == Probed(card[r], healthy)
           owned == [probed EXCEPT !.ownerReferences = <<OwnerReference(reg[r])>>]
           key == <<owned.namespace, owned.name>>
       IN /\ applied' = [applied EXCEPT ![r] = applied[r] \cup {key}]
          /\ agents' = [a \in AgentIds |->
                          IF ok /\ <<agents[a].namespace, agents[a].name>> = key
                          THEN [agents[a] EXCEPT
                                  !.annotations = Put(@, <<"kagent.dev/registered", "">>, "true")]
                          ELSE agents[a]]
          /\ IF ok
             THEN /\ cards' = [cards EXCEPT ![key] = ServerSideApply(cards[key], owned)]
                  /\ quiet' = Disturb(r)
                  /\ UNCHANGED failed
             ELSE /\ failed' = [failed EXCEPT ![r] = failed[r] \cup {key}]
                  /\ UNCHANGED <<cards, quiet>>
    /\ Advance(r, ok)
    /\ UNCHANGED <<registries, services, now, reg, selected, skipped, result>>
    /\ UNCHANGED queueVars

\* reconcileAgentCard after the dedup test: probe, set the owner, apply.
\* healthy is what CheckEndpoints answers, ok whether the API took the patch.
ApplyCard(r, healthy, ok) ==
    /\ pc[r] = "apply"
    /\ LET probed == Probed(card[r], healthy)
           owned == [probed EXCEPT !.ownerReferences = <<OwnerReference(reg[r])>>]
           key == <<owned.namespace, owned.name>>
       IN /\ applied' = [applied EXCEPT ![r] = applied[r] \cup {key}]
          /\ IF ok
             THEN /\ cards' = [cards EXCEPT ![key] = ServerSideApply(cards[key], owned)]
                  /\ quiet' = Disturb(r)
                  /\ UNCHANGED failed
             ELSE /\ failed' = [failed EXCEPT ![r] = failed[r] \cup {key}]
                  /\ UNCHANGED <<cards, quiet>>
    /\ Advance(r, ok)
    /\ UNCHANGED <<registries, agents, services, now, reg, selected, skipped, result>>
    /\ UNCHANGED queueVars

\* The same, CheckEndpoints being taken for its answer alone.
Apply(r, healthy, ok) ==
    /\ ApplyCard(r, healthy, ok)
    /\ UNCHANGED probe

\* reconcileAgentRegistry: the final status, and the return of Reconcile.
Finalize(r, wrote) ==
    /\ pc[r] = "finalize"
    /\ LET obj == updateStatus(reg[r], PhaseReady, "Discovery complete",
                               registeredCount[r], now)
           stored == StatusWrite(registries[r], obj, wrote)
           okKeys == {<<selected[r][i].namespace, selected[r][i].name>> :
                         i \in 1..Len(selected[r])} \ failed[r]
       IN /\ registries' = [registries EXCEPT ![r] = stored]
          /\ quiet' = IF /\ stored.exists
                         /\ discoverAgents(reg[r], agents, TRUE, {}).items = selected[r]
                      THEN Settled(r, cards, stored, okKeys)
                      ELSE [x \in Registries |-> NoQuiet]
          /\ EndPass(r, Returned(obj, Accepted(registries[r], obj, wrote)))
    /\ UNCHANGED <<agents, services, cards, now>>
    /\ UNCHANGED queueVars

\* Reconcile after reconcileAgentRegistry returned an error: the status
\* Error with the error as message, and the error handed to the caller.
Fail(r, wrote) ==
    /\ pc[r] = "error"
    /\ LET obj == updateStatus(reg[r], PhaseError, "failed to discover agents", 0, now)
       IN registries' = [registries EXCEPT ![r] = StatusWrite(registries[r], obj, wrote)]
    /\ quiet' = [x \in Registries |-> NoQuiet]
    /\ EndPass(r, ReturnedError)
    /\ UNCHANGED <<agents, services, cards, now>>
    /\ UNCHANGED queueVars

\* A Reconcile that answers a Registry not found with a timed requeue.
GoneRequeues(r) ==
    /\ pc[r] = "idle"
    /\ ~registries[r].exists
    /\ result' = [result EXCEPT ![r] = [err |-> "none",
                                        requeueAfter |-> DefaultSyncIntervalSeconds,
                                        returned |-> TRUE]]
    /\ UNCHANGED <<clusterVars, now, pc, reg, selected, idx, registeredCount, card,
                   skipped, applied, failed, quiet>>
    /\ UNCHANGED queueVars
    /\ UNCHANGED probe

\* Reconcile of a key whose Registry is not found: nothing is written.
Gone(r) ==
    /\ pc[r] = "idle"
    /\ ~registries[r].exists
    /\ result' = [result EXCEPT ![r] = ReturnedNotFound]
    /\ UNCHANGED <<clusterVars, now, pc, reg, selected, idx, registeredCount, card,
                   skipped, applied, failed, quiet>>
    /\ UNCHANGED queueVars
    /\ UNCHANGED probe

----
(***************************************************************************)
(* The environment: the operator edits an Agent's annotations; time passes.*)
(***************************************************************************)
RECURSIVE Sum(_, _)
Sum(f, S) == IF S = {} THEN 0
             ELSE LET x == CHOOSE y \in S : TRUE IN f[x] + Sum(f, S \ {x})

Edits == Sum([a \in AgentIds |-> agents[a].resourceVersion - 1], AgentIds)

AnnotateAgent(a, key) ==
    /\ Edits < MaxEdits
    /\ agents' = [agents EXCEPT
                    ![a].annotations = IF Has(@, key) THEN Remove(@, key)
                                       ELSE Put(@, key, "true"),
                    ![a].resourceVersion = @ + 1]
    /\ quiet' = [x \in Registries |-> NoQuiet]
    /\ UNCHANGED <<registries, services, cards, now, passVars>>
    /\ UNCHANGED queueVars

Tick ==
    /\ now < MaxClock
    /\ now' = now + 1
    /\ UNCHANGED <<clusterVars, passVars, quiet>>
    /\ UNCHANGED queueVars

Next ==
    \/ \E r \in Registries : DisabledPass(r, TRUE)
    \/ \E r \in Registries : Begin(r, TRUE, TRUE, {})
    \/ \E r \in Registries : CardStep(r, TRUE, TRUE, "ok")
    \/ \E r \in Registries, healthy \in BOOLEAN, ok \in BOOLEAN : Apply(r, healthy, ok)
    \/ \E r \in Registries : Finalize(r, TRUE)
    \/ \E a \in AgentIds, key \in {AnnotationRegisterToRegistry, AnnotationDiscoveryDisabled} :
          AnnotateAgent(a, key)
    \/ Tick

Spec == Init /\ [][Next]_vars

\* Two Registries whose passes interleave; the clock stands still.
NextOverlap ==
    \/ \E r \in Registries : Begin(r, TRUE, TRUE, {})
    \/ \E r \in Registries : CardStep(r, TRUE, TRUE, "ok")
    \/ \E r \in Registries, healthy \in BOOLEAN, ok \in BOOLEAN : Apply(r, healthy, ok)
    \/ \E r \in Registries : Finalize(r, TRUE)
    \/ \E a \in AgentIds, key \in {AnnotationRegisterToRegistry, AnnotationDiscoveryDisabled} :
          AnnotateAgent(a, key)

SpecOverlap == InitOverlap /\ [][NextOverlap]_vars

----
(***************************************************************************)
(* One Registry whose API calls can fail: status updates, the List of the  *)
(* namespaces, the List of the Agents of a namespace, the Get and the      *)
(* Patch of a Card.  The operator edits the Registry's spec meanwhile.     *)
(***************************************************************************)
ConfiguredSyncInterval == 60

InitFaults ==
    LET FaultConfigs ==
            {[enabled |-> TRUE, selector |-> NoSelector, syncInterval |-> NoDuration],
             [enabled |-> TRUE, selector |-> Everywhere, syncInterval |-> {ConfiguredSyncInterval}],
             [enabled |-> TRUE, selector |-> [set |-> TRUE, matchLabels |-> {InvalidLabel}], syncInterval |-> NoDuration],
             [enabled |-> FALSE, selector |-> NoSelector, syncInterval |-> {ConfiguredSyncInterval}]}
    IN
    \E c \in FaultConfigs :
        InitWith([r \in Registries |->
                    IF r = "r1"
                    THEN [InitialRegistry(r, c.enabled, c.selector, "0.3.0")
                            EXCEPT !.spec.syncInterval = c.syncInterval]
                    ELSE NoRegistry])

\* The operator switches auto-discovery of the Registry on or off: a spec
\* change, which the API server answers with the next generation.
EditSpec(r) ==
    /\ registries[r].exists
    /\ registries[r].generation < MaxGeneration
    /\ registries' = [registries EXCEPT
                        ![r].spec.enableAutoDiscovery = ~@,
                        ![r].generation = @ + 1]
    /\ quiet' = [x \in Registries |-> NoQuiet]
    /\ UNCHANGED <<agents, services, cards, now, passVars>>
    /\ UNCHANGED queueVars

NextFaults ==
    \/ \E r \in Registries, wrote \in BOOLEAN : DisabledPass(r, wrote)
    \/ \E r \in Registries, wrote \in BOOLEAN, nsListed \in BOOLEAN,
          lost \in SUBSET Namespaces : Begin(r, wrote, nsListed, lost)
    \/ \E r \in Registries, read \in BOOLEAN : CardStep(r, read, TRUE, "ok")
    \/ \E r \in Registries, healthy \in BOOLEAN, ok \in BOOLEAN : Apply(r, healthy, ok)
    \/ \E r \in Registries, wrote \in BOOLEAN : Finalize(r, wrote)
    \/ \E r \in Registries, wrote \in BOOLEAN : Fail(r, wrote)
    \/ \E r \in Registries : EditSpec(r)
    \/ \E a \in AgentIds : AnnotateAgent(a, AnnotationDiscoveryDisabled)

SpecFaults == InitFaults /\ [][NextFaults]_vars

----
(***************************************************************************)
(* A Registry, its deletion, and the garbage collector of the cluster,     *)
(* which deletes a Card none of whose owners is left.                      *)
(***************************************************************************)
\* The Registry r1 searches its own namespace or every labelled one.
InitCascade ==
    \E selector \in {NoSelector, Everywhere} :
        InitWith([r \in Registries |->
                    IF r = "r1"
                    THEN InitialRegistry(r, TRUE, selector, "0.3.0")
                    ELSE NoRegistry])

DeleteRegistry(r) ==
    /\ registries[r].exists
    /\ registries' = [registries EXCEPT ![r] = NoRegistry]
    /\ quiet' = [x \in Registries |-> NoQuiet]
    /\ UNCHANGED <<agents, services, cards, now, passVars>>
    /\ UNCHANGED queueVars

CollectGarbage(k) ==
    LET OwnerLeft(c) ==
            \E i \in 1..Len(c.ownerReferences), r \in Registries :
                registries[r].exists /\ registries[r].uid = c.ownerReferences[i].uid
    IN
    /\ cards[k].exists
    /\ ~OwnerLeft(cards[k])
    /\ cards' = [cards EXCEPT ![k] = NoCard]
    /\ quiet' = [x \in Registries |-> NoQuiet]
    /\ UNCHANGED <<registries, agents, services, now, passVars>>
    /\ UNCHANGED queueVars

\* A pass that is under way goes on: a worker does not stop in the middle.
PassStep(r) ==
    \/ CardStep(r, TRUE, TRUE, "ok")
    \/ \E healthy \in BOOLEAN, ok \in BOOLEAN : Apply(r, healthy, ok)
    \/ Finalize(r, TRUE)

NextCascade ==
    \/ \E r \in Registries : Begin(r, TRUE, TRUE, {})
    \/ \E r \in Registries : PassStep(r)
    \/ \E r \in Registries : Gone(r)
    \/ \E r \in Registries : DeleteRegistry(r)
    \/ \E k \in CardKeys : CollectGarbage(k)

SpecCascade ==
    /\ InitCascade
    /\ [][NextCascade]_vars
    /\ \A r \in Registries : WF_vars(PassStep(r))
    /\ \A k \in CardKeys : WF_vars(CollectGarbage(k))

----
(***************************************************************************)
(* One Registry under every setting of discovery.syncInterval that the     *)
(* type admits: nil, a positive duration, and zero (the field carries a    *)
(* default and no minimum).  No API call fails.                            *)
(***************************************************************************)

InitInterval ==
    LET SyncIntervals == {NoDuration, {0}, {ConfiguredSyncInterval}}
    IN
    \E enabled \in BOOLEAN, selector \in {NoSelector, Everywhere}, d \in SyncIntervals :
        InitWith([r \in Registries |->
                    IF r = "r1"
                    THEN [InitialRegistry(r, enabled, selector, "0.3.0")
                            EXCEPT !.spec.syncInterval = d]
                    ELSE NoRegistry])

NextInterval ==
    \/ \E r \in Registries : DisabledPass(r, TRUE)
    \/ \E r \in Registries : Begin(r, TRUE, TRUE, {})
    \/ \E r \in Registries : PassStep(r)
    \/ \E r \in Registries : EditSpec(r)

SpecInterval == InitInterval /\ [][NextInterval]_vars

----
(***************************************************************************)
(* One Registry, in either namespace, under every kind of scope: no        *)
(* selector, a selector that matches both namespaces, only the namespace   *)
(* m, no namespace, and the empty selector, which matches every namespace. *)
(***************************************************************************)

InitScope ==
    LET Scopes ==
            {NoSelector,
             Everywhere,
             [set |-> TRUE, matchLabels |-> {"team=b"}],
             [set |-> TRUE, matchLabels |-> {"team=c"}],
             [set |-> TRUE, matchLabels |-> {}]}
    IN
    \E home \in Namespaces, selector \in Scopes :
        InitWith([r \in Registries |->
                    IF r = "r1"
                    THEN [InitialRegistry(r, TRUE, selector, "0.3.0")
                            EXCEPT !.namespace = home]
                    ELSE NoRegistry])

NextScope ==
    \/ \E r \in Registries : Begin(r, TRUE, TRUE, {})
    \/ \E r \in Registries : PassStep(r)
    \/ \E a \in AgentIds, key \in {AnnotationRegisterToRegistry, AnnotationDiscoveryDisabled} :
          AnnotateAgent(a, key)

SpecScope == InitScope /\ [][NextScope]_vars

----
(***************************************************************************)
(* One Registry and the Agent a1 in every shape that bears on its          *)
(* endpoints: with or without the a2a-endpoint annotation, the             *)
(* capabilities annotation and an A2A config, its Service absent or with   *)
(* up to MaxPorts ports.  The pass derives the Card, probes its endpoints, *)
(* each of which answers or not, and applies it; the context of the pass   *)
(* can be cancelled while it probes.                                       *)
(***************************************************************************)
CustomEndpoint == <<"http://custom.example:9000">>

ServiceOf(k, n) ==
    LET ServicePort(i) ==
            [name |-> "http", port |-> 8079 + i, protocol |-> IF i % 2 = 1 THEN "TCP" ELSE "UDP"]
    IN
    [exists |-> TRUE, name |-> k[2], namespace |-> k[1], resourceVersion |-> 1,
     ports |-> [i \in 1..n |-> ServicePort(i)]]

AgentShapes(a) ==
    LET WithA2AConfig ==
            [set |-> TRUE, modelConfig |-> "", tools |-> <<>>,
             a2aConfig |-> [set |-> TRUE, skills |-> <<"chat">>]]
    IN
    {[InitialAgent(a) EXCEPT
         !.annotations =
             [k \in {AnnotationRegisterToRegistry}
                     \cup (IF custom THEN {AnnotationA2AEndpoint} ELSE {})
                     \cup (IF caps THEN {AnnotationCapabilities} ELSE {}) |->
                 IF k = AnnotationA2AEndpoint THEN CustomEndpoint
                 ELSE IF k = AnnotationCapabilities THEN <<"q", ",", "a">>
                 ELSE "true"],
         !.spec.declarative = d] :
       custom \in BOOLEAN, caps \in BOOLEAN, d \in {NoDeclarative, WithA2AConfig}}

InitProbe ==
    LET ServiceShapes(k) == {NoService} \cup {ServiceOf(k, n) : n \in 0..MaxPorts}
    IN
    \E agent \in AgentShapes("a1"), service \in ServiceShapes(CardKey("a1")),
       selector \in {NoSelector, Everywhere} :
        InitCluster([r \in Registries |->
                        IF r = "r1" THEN InitialRegistry(r, TRUE, selector, "0.3.0")
                        ELSE NoRegistry],
                    [a \in AgentIds |-> IF a = "a1" THEN agent ELSE InitialAgent(a)],
                    [k \in CardKeys |-> IF k = CardKey("a1") THEN service ELSE NoService])

\* reconcileAgentCard after the dedup test, CheckEndpoints included: the
\* endpoints answer as answers tells, the context is cancelled from the
\* endpoint cancelAt on (never, when cancelAt is past the last one), and a
\* Patch under a cancelled context fails.
Probing(r, answers, cancelAt, ok) ==
    LET endpoints == card[r].spec.endpoints
        invoked == Len(endpoints) > 0
        out == CheckEndpoints(endpoints, answers, cancelAt)
        cancelled == invoked /\ out.calls >= cancelAt
        took == ok /\ ~cancelled
    IN /\ ApplyCard(r, out.healthy, took)
       /\ probe' = [probe EXCEPT ![r] =
                       [set       |-> TRUE,
                        invoked   |-> invoked,
                        answers   |-> answers,
                        cancelAt  |-> cancelAt,
                        cancelled |-> cancelled,
                        calls     |-> IF invoked THEN out.calls ELSE 0,
                        healthy   |-> out.healthy,
                        err       |-> out.err,
                        recorded  |-> Probed(card[r], out.healthy).status.endpointHealthy,
                        took      |-> took]]

ProbeApply(r, ok) ==
    /\ pc[r] = "apply"
    /\ \E answers \in [1..Len(card[r].spec.endpoints) -> Answers],
          cancelAt \in 1..(Len(card[r].spec.endpoints) + 1) :
          Probing(r, answers, cancelAt, ok)

NextProbe ==
    \/ \E r \in Registries : Begin(r, TRUE, TRUE, {})
    \/ \E r \in Registries, got \in BOOLEAN : CardStep(r, TRUE, got, "ok")
    \/ \E r \in Registries, ok \in BOOLEAN : ProbeApply(r, ok)
    \/ \E r \in Registries : Finalize(r, TRUE)

SpecProbe == InitProbe /\ [][NextProbe]_vars

----
(***************************************************************************)
(* One Registry and the Agent a1 in every shape that bears on the          *)
(* capabilities, the metadata and the public document of its Card: the     *)
(* capabilities annotation with blanks and empty items, a declarative      *)
(* config with or without model, tools and skills (some without a name),   *)
(* a description or none, "card-" annotations.  The translator answers,    *)
(* fails or is not configured, and the clock goes on between the passes.   *)
(***************************************************************************)
InitDerive ==
    LET Tool(m, a) == [mcpServer |-> m, agent |-> a]
        A2A(skills) == [set |-> TRUE, skills |-> skills]
        Declaratives ==
            {NoDeclarative,
             [set |-> TRUE, modelConfig |-> "", tools |-> <<>>, a2aConfig |-> [set |-> FALSE]],
             [set |-> TRUE, modelConfig |-> "gpt",
              tools |-> <<Tool("m1", ""), Tool("", ""), Tool("", "a9")>>,
              a2aConfig |-> A2A(<<"chat", "", "plan">>)],
             [set |-> TRUE, modelConfig |-> "", tools |-> <<Tool("", "")>>,
              a2aConfig |-> A2A(<<"">>)],
             [set |-> TRUE, modelConfig |-> "gpt", tools |-> <<>>, a2aConfig |-> A2A(<<>>)]}
        Capabilities == {<<" ", "q", ",", " ", "a", " ">>, <<"q", ",", ",">>}
        Notes == {EmptyMap,
                  [k \in {<<AnnotationCardMetadataPrefix, "description">>} |-> "over"],
                  [k \in {<<AnnotationCardMetadataPrefix, "owner">>,
                          <<AnnotationCardMetadataPrefix, "tools">>} |-> "x"]}
        Shape(caps, notes, description, d) ==
            [InitialAgent("a1") EXCEPT
               !.annotations =
                   [k \in {AnnotationRegisterToRegistry} \cup DOMAIN notes
                          \cup {AnnotationCapabilities : c \in caps} |->
                      IF k = AnnotationRegisterToRegistry THEN "true"
                      ELSE IF k = AnnotationCapabilities THEN CHOOSE c \in caps : TRUE
                      ELSE notes[k]],
               !.spec.description = description,
               !.spec.declarative = d]
    IN \E caps \in {{}} \cup {{c} : c \in Capabilities}, notes \in Notes,
          description \in {"", "hello"}, d \in Declaratives :
          InitCluster([r \in Registries |->
                          IF r = "r1" THEN InitialRegistry(r, TRUE, NoSelector, "0.3.0")
                          ELSE NoRegistry],
                      [a \in AgentIds |->
                          IF a = "a1" THEN Shape(caps, notes, description, d)
                          ELSE InitialAgent(a)],
                      [k \in CardKeys |-> InitialService(k)])

NextDerive ==
    \/ \E r \in Registries : Begin(r, TRUE, TRUE, {})
    \/ \E r \in Registries, translate \in {"ok", "err", "nil"} :
          CardStep(r, TRUE, TRUE, translate)
    \/ \E r \in Registries, healthy \in BOOLEAN, ok \in BOOLEAN : Apply(r, healthy, ok)
    \/ \E r \in Registries : Finalize(r, TRUE)
    \/ Tick

SpecDerive == InitDerive /\ [][NextDerive]_vars

----
(***************************************************************************)
(* Events that change nothing the Card is derived from.  Another           *)
(* controller writes the status of the Agent, or the endpoints controller  *)
(* the Service: the API server answers every write with a new              *)
(* resourceVersion, and the watches of SetupWithManager pass the event on. *)
(* The endpoints are probed as in SpecProbe, and the clock goes on.         *)
(***************************************************************************)
\* The Agent a1 carries the label version, the label
\* app.kubernetes.io/version or neither; r1 searches its own namespace.
InitTouch ==
    \E labels \in {EmptyMap, [k \in {"version"} |-> "v1"],
                    [k \in {"app.kubernetes.io/version"} |-> "v2"]} :
        InitCluster([r \in Registries |->
                        IF r = "r1" THEN InitialRegistry(r, TRUE, NoSelector, "0.3.0")
                        ELSE NoRegistry],
                    [a \in AgentIds |-> [InitialAgent(a) EXCEPT !.labels = labels]],
                    [k \in CardKeys |-> InitialService(k)])

\* A write to the Agent a that leaves labels, annotations and spec alone.
TouchAgent(a) ==
    /\ Edits < MaxEdits
    /\ agents' = [agents EXCEPT ![a].resourceVersion = @ + 1]
    /\ quiet' = [x \in Registries |-> NoQuiet]
    /\ UNCHANGED <<registries, services, cards, now, passVars>>
    /\ UNCHANGED queueVars

\* A write to the Service at key k that leaves its ports alone.
TouchService(k) ==
    /\ services[k].exists
    /\ services[k].resourceVersion < MaxEdits
    /\ services' = [services EXCEPT ![k].resourceVersion = @ + 1]
    /\ quiet' = [x \in Registries |-> NoQuiet]
    /\ UNCHANGED <<registries, agents, cards, now, passVars>>
    /\ UNCHANGED queueVars

NextTouch ==
    \/ \E r \in Registries : Begin(r, TRUE, TRUE, {})
    \/ \E r \in Registries : CardStep(r, TRUE, TRUE, "ok")
    \/ \E r \in Registries, ok \in BOOLEAN : ProbeApply(r, ok)
    \/ \E r \in Registries : Finalize(r, TRUE)
    \/ \E a \in AgentIds : TouchAgent(a)
    \/ \E k \in CardKeys : TouchService(k)
    \/ Tick

SpecTouch == InitTouch /\ [][NextTouch]_vars

----
(***************************************************************************)
(* Two Registries that select the Agent a1 and are reconciled again and    *)
(* again, as the requeue of Reconcile has it; nothing else happens in the  *)
(* cluster, and no call fails.                                             *)
(***************************************************************************)
QuiesceStep(r) ==
    \/ Begin(r, TRUE, TRUE, {})
    \/ CardStep(r, TRUE, TRUE, "ok")
    \/ \E healthy \in BOOLEAN : Apply(r, healthy, TRUE)
    \/ Finalize(r, TRUE)

NextQuiesce == \E r \in Registries : QuiesceStep(r)

SpecQuiesce ==
    /\ InitOverlap
    /\ [][NextQuiesce]_vars
    /\ \A r \in Registries : WF_vars(QuiesceStep(r))

----
(***************************************************************************)
(* The deletion, with a Get of the Registry that can fail otherwise than   *)
(* NotFound (the API server does not answer, the cache is not synced).     *)
(***************************************************************************)
\* A Reconcile that marks the stored Registry with phase Error when its
\* Get failed.
GetFailedMarksError(r) ==
    /\ pc[r] = "idle"
    /\ registries' = [registries EXCEPT ![r] =
                        IF @.exists
                        THEN updateStatus(@, PhaseError, "failed to get AgentRegistry", 0, now)
                        ELSE @]
    /\ result' = [result EXCEPT ![r] = ReturnedError]
    /\ quiet' = [x \in Registries |-> NoQuiet]
    /\ UNCHANGED <<agents, services, cards, now, pc, reg, selected, idx, registeredCount,
                   card, skipped, applied, failed>>
    /\ UNCHANGED queueVars
    /\ UNCHANGED probe

\* Reconcile whose Get of the Registry fails otherwise than with NotFound:
\* the error is logged and returned.
GetFailed(r) ==
    /\ pc[r] = "idle"
    /\ result' = [result EXCEPT ![r] = ReturnedError]
    /\ UNCHANGED <<clusterVars, now, pc, reg, selected, idx, registeredCount, card,
                   skipped, applied, failed, quiet>>
    /\ UNCHANGED queueVars
    /\ UNCHANGED probe

NextFetch ==
    \/ \E r \in Registries : Begin(r, TRUE, TRUE, {})
    \/ \E r \in Registries : PassStep(r)
    \/ \E r \in Registries : Gone(r)
    \/ \E r \in Registries : GetFailed(r)
    \/ \E r \in Registries : DeleteRegistry(r)
    \/ \E k \in CardKeys : CollectGarbage(k)

SpecFetch == InitCascade /\ [][NextFetch]_vars

----
(***************************************************************************)
(* The workqueue in front of Reconcile (SetupWithManager): watch events    *)
(* and timed requeues add Registry keys; MaxConcurrentReconciles workers   *)
(* take keys out, run one pass each and report the key done.               *)
(***************************************************************************)
Running == Sum(inflight, QueueKeys)

Occurrences(q, k) == Cardinality({i \in 1..Len(q) : q[i] = k})

\* Add: a watch event mapped to key k, or the timer of a requeue, fires.
Enqueue(k) ==
    /\ inflight[k] > 0 => addsDuring[k] < MaxAdds
    /\ addsDuring' = [addsDuring EXCEPT ![k] = IF inflight[k] > 0 THEN @ + 1 ELSE @]
    /\ IF k \in dirty
       THEN UNCHANGED <<queue, dirty>>
       ELSE /\ dirty' = dirty \cup {k}
            /\ queue' = IF inflight[k] > 0 THEN queue ELSE Append(queue, k)
    /\ UNCHANGED <<inflight, clusterVars, now, passVars, quiet>>

\* Get: a free worker takes the key at the head and starts a pass for it.
Dequeue ==
    /\ queue # <<>>
    /\ Running < MaxConcurrentReconciles
    /\ LET k == Head(queue)
       IN /\ queue' = Tail(queue)
          /\ dirty' = dirty \ {k}
          /\ inflight' = [inflight EXCEPT ![k] = @ + 1]
          /\ addsDuring' = [addsDuring EXCEPT ![k] = 0]
    /\ UNCHANGED <<clusterVars, now, passVars, quiet>>

\* Done: the pass for key k has returned.
Done(k) ==
    /\ inflight[k] > 0
    /\ inflight' = [inflight EXCEPT ![k] = @ - 1]
    /\ queue' = IF k \in dirty THEN Append(queue, k) ELSE queue
    /\ addsDuring' = [addsDuring EXCEPT ![k] = 0]
    /\ UNCHANGED <<dirty, clusterVars, now, passVars, quiet>>

InitQueue == InitWith([r \in Registries |-> NoRegistry])

NextQueue ==
    \/ \E k \in QueueKeys : Enqueue(k)
    \/ Dequeue
    \/ \E k \in QueueKeys : Done(k)

SpecQueue == InitQueue /\ [][NextQueue]_vars

----
(***************************************************************************)
(* The watches of SetupWithManager: an event on a Registry, an Agent or a  *)
(* Service goes through its predicate and is mapped to the keys that are   *)
(* added to the workqueue.  The events here are updates of stored objects. *)
(***************************************************************************)
\* reconcile.Request{NamespacedName}: the workqueue key of a Registry.
RequestOf == [r1 |-> 1, r2 |-> 2]

\* predicate.GenerationChangedPredicate on an update event.
GenerationChangedPredicate(old, new) == new.generation # old.generation

\* predicate.ResourceVersionChangedPredicate on an update event.
ResourceVersionChangedPredicate(old, new) == new.resourceVersion # old.resourceVersion

\* The List of the map functions: a request for every stored Registry, or
\* none when the List fails.
RegistryRequests(regs, listed) ==
    IF listed THEN {RequestOf[r] : r \in {x \in Registries : regs[x].exists}} ELSE {}

\* A map function of the Agent watch that does not look at the annotation.
AgentRequestsAll(obj, regs, listed) == RegistryRequests(regs, listed)

\* The map function of the Agent watch.
AgentRequests(obj, regs, listed) ==
    IF Lookup(obj.annotations, AnnotationRegisterToRegistry) # "true"
    THEN {}
    ELSE RegistryRequests(regs, listed)

\* The map function of the Service watch.
ServiceRequests(obj, regs, listed) == RegistryRequests(regs, listed)

\* Add of every key of the set.
AddAll(keys) ==
    /\ \A k \in keys : inflight[k] > 0 => addsDuring[k] < MaxAdds
    /\ addsDuring' = [k \in QueueKeys |->
                         IF k \in keys /\ inflight[k] > 0
                         THEN addsDuring[k] + 1 ELSE addsDuring[k]]
    /\ dirty' = dirty \cup keys
    /\ queue' = queue \o SeqOfSet({k \in keys : k \notin dirty /\ inflight[k] = 0})
    /\ UNCHANGED inflight

\* The Registry r is updated, in its spec by the operator or in its status
\* by a pass, and the update event goes through the predicate of For.
RegistryEvent(r, part) ==
    /\ registries[r].exists
    /\ part = "spec" => registries[r].generation < MaxGeneration
    /\ LET old == registries[r]
           new == IF part = "spec"
                  THEN [old EXCEPT !.spec.enableAutoDiscovery = ~@, !.generation = @ + 1]
                  ELSE updateStatus(old,
                                    IF old.status.phase = PhaseReady
                                    THEN PhaseNotStarted ELSE PhaseReady,
                                    "Discovery complete", 0, now)
       IN /\ registries' = [registries EXCEPT ![r] = new]
          /\ IF GenerationChangedPredicate(old, new)
             THEN AddAll({RequestOf[r]})
             ELSE UNCHANGED queueVars
    /\ UNCHANGED <<agents, services, cards, now, passVars, quiet>>

\* An annotation of the Agent a is set or removed; the update event goes
\* through the predicate, and the handler maps the old and the new object.
AgentEvent(a, key, listed) ==
    /\ Edits < MaxEdits
    /\ LET old == agents[a]
           new == [old EXCEPT !.annotations = IF Has(@, key) THEN Remove(@, key)
                                              ELSE Put(@, key, "true"),
                              !.resourceVersion = @ + 1]
       IN /\ agents' = [agents EXCEPT ![a] = new]
          /\ IF ResourceVersionChangedPredicate(old, new)
             THEN AddAll(AgentRequests(old, registries, listed)
                         \cup AgentRequests(new, registries, listed))
             ELSE UNCHANGED queueVars
    /\ UNCHANGED <<registries, services, cards, now, passVars, quiet>>

\* The Service at key k is made or removed; the handler maps the object.
ServiceEvent(k, listed) ==
    /\ LET old == services[k]
           new == IF old.exists THEN NoService
                  ELSE [exists |-> TRUE, name |-> k[2], namespace |-> k[1],
                        resourceVersion |-> 1,
                        ports |-> << [name |-> "http", port |-> 8080, protocol |-> "TCP"] >>]
       IN /\ services' = [services EXCEPT ![k] = new]
          /\ AddAll(ServiceRequests(IF new.exists THEN new ELSE old, registries, listed))
    /\ UNCHANGED <<registries, agents, cards, now, passVars, quiet>>

\* The Registry r1, and r2 or not.
InitWatch ==
    \E both \in BOOLEAN :
        InitWith([r \in Registries |->
                    IF r = "r1" \/ both
                    THEN InitialRegistry(r, TRUE, NoSelector, "0.3.0")
                    ELSE NoRegistry])

NextWatch ==
    \/ \E r \in Registries, part \in {"spec", "status"} : RegistryEvent(r, part)
    \/ \E a \in AgentIds, key \in {AnnotationRegisterToRegistry, AnnotationDiscoveryDisabled} :
          AgentEvent(a, key, TRUE)
    \/ \E k \in CardKeys : ServiceEvent(k, TRUE)
    \/ Dequeue
    \/ \E k \in QueueKeys : Done(k)

SpecWatch == InitWatch /\ [][NextWatch]_vars

----
(***************************************************************************)
(* Properties.                                                             *)
(***************************************************************************)
KeyOf(agent) == <<agent.namespace, agent.name>>
SelectedKeys(r) == {KeyOf(selected[r][i]) : i \in 1..Len(selected[r])}

\* The pass of r returns in this step.
PassReturns(r) == pc[r] = "finalize" /\ pc'[r] = "idle"

\* The Agent a is in the scope of the Registry object and carries the
\* annotations that select it.
InScope(registry, a) ==
    IF registry.spec.namespaceSelector.set
    THEN registry.spec.namespaceSelector.matchLabels \subseteq NamespaceLabels[agents[a].namespace]
    ELSE agents[a].namespace = registry.namespace

Eligible(a) ==
    /\ Has(agents[a].annotations, AnnotationRegisterToRegistry)
    /\ agents[a].annotations[AnnotationRegisterToRegistry] = "true"
    /\ ~(/\ Has(agents[a].annotations, AnnotationDiscoveryDisabled)
         /\ agents[a].annotations[AnnotationDiscoveryDisabled] = "true")

\* C1: dedup fast path. When the per-Agent step of a pass finds a stored
\* Card at (Agent namespace, Agent name) whose status.hash equals the hash
\* of the Card it has just derived, the pass sends no apply for that Card:
\* the step does not go on to the apply and the Card's key is not among
\* the keys the pass has applied.
DedupFastPath ==
    [][\A r \in Registries :
         (/\ pc[r] = "card"
          /\ cards[KeyOf(DerivedWith(r, TRUE, "ok"))].exists
          /\ cards[KeyOf(DerivedWith(r, TRUE, "ok"))].status.hash = DerivedWith(r, TRUE, "ok").status.hash)
         => /\ pc'[r] # "apply"
            /\ KeyOf(DerivedWith(r, TRUE, "ok")) \notin applied'[r]
            /\ (pc'[r] # pc[r] \/ idx'[r] # idx[r]) => cards' = cards]_vars

\* A pass has left a Card alone and has sent no apply for it.
DedupFastPathWitness ==
    \E r \in Registries : skipped[r] # {} /\ skipped[r] \cap applied[r] = {}

\* C2: hash invariant. Every stored Card carries in status.hash the digest
\* of its own stored spec, public document included.
HashInvariant ==
    \A k \in CardKeys :
        cards[k].exists => cards[k].status.hash = calculateHash(cards[k].spec)

\* Both Registries have applied the Card of a1 in their running passes.
HashInvariantWitness ==
    /\ cards[CardKey("a1")].exists
    /\ cards[CardKey("a1")].spec.publicCard.set
    /\ \A r \in Registries : CardKey("a1") \in applied[r] \ failed[r]

\* C3: registration. A pass over a Registry with discovery enabled selects
\* every Agent in its scope that has register-to-registry = "true" and not
\* discovery-disabled = "true"; when the pass returns and no per-Agent step
\* of it has failed, a Card named like each selected Agent exists in that
\* Agent's namespace.
Registration ==
    [][\A r \in Registries :
         /\ (pc[r] = "idle" /\ pc'[r] # "idle") =>
                \A a \in AgentIds :
                    (InScope(registries[r], a) /\ Eligible(a))
                    => KeyOf(agents[a]) \in SelectedKeys(r)'
         /\ (PassReturns(r) /\ failed[r] = {}) =>
                \A k \in SelectedKeys(r) :
                    /\ cards'[k].exists
                    /\ cards'[k].name = k[2]
                    /\ cards'[k].namespace = k[1]]_vars

\* A pass over two selected Agents has returned without a failed step and
\* both Cards exist.
RegistrationWitness ==
    /\ quiet["r1"].set
    /\ quiet["r1"].ok = CardKeys
    /\ \A k \in CardKeys : cards[k].exists

\* C4: de-registration. When a pass over R returns, no Card owned by R
\* exists for an Agent that the pass did not select.
Deregistration ==
    [][\A r \in Registries :
         PassReturns(r) =>
            \A k \in CardKeys :
                (/\ cards'[k].exists
                 /\ \E i \in 1..Len(cards'[k].ownerReferences) :
                        cards'[k].ownerReferences[i].uid = registries[r].uid)
                => k \in SelectedKeys(r)]_vars

\* C5: idempotence. When a pass over R returns and nothing in the cluster
\* was changed by anyone else since the previous pass over R returned (both
\* passes without a failed step), every Card and the status of R are as the
\* previous pass left them, except for status.lastSync.
Idempotence ==
    [][LET StatusButLastSync(status) == [status EXCEPT !.lastSync = NoTime]
       IN
       \A r \in Registries :
         (/\ PassReturns(r)
          /\ quiet[r].set
          /\ failed[r] = {}
          /\ quiet[r].ok = SelectedKeys(r))
         => /\ cards' = quiet[r].cards
            /\ StatusButLastSync(registries'[r].status) = StatusButLastSync(quiet[r].status)]_vars

\* C6: scenario S5. A second pass over the same Registry, with nothing
\* changed since the first pass returned, sends no apply for a Card the
\* first pass created or found up to date, leaves the stored status.hash of
\* that Card as it was, and writes the current time into status.lastSync.
SecondPassSkips ==
    [][\A r \in Registries :
         (PassReturns(r) /\ quiet[r].set)
         => /\ \A k \in quiet[r].ok :
                  /\ k \notin applied[r]
                  /\ k \in skipped[r]
                  /\ cards'[k].exists
                  /\ cards'[k].status.hash = quiet[r].cards[k].status.hash
            /\ registries'[r].status.lastSync = now]_vars

\* A second pass has returned after the clock moved on, with a Card that
\* the first pass registered.
SecondPassSkipsWitness ==
    /\ quiet["r1"].set
    /\ quiet["r1"].passes = 2
    /\ quiet["r1"].ok # {}
    /\ now > 1
    /\ registries["r1"].status.lastSync = now

\* C7: per-Registry serialization. At most 5 passes run at the same time,
\* no two passes run for the same key, a key with a running pass is not
\* handed out again, and when a pass returns its key waits in the queue
\* exactly once if it was enqueued (any number of times) during the pass
\* and not at all otherwise.
PerKeySerialization ==
    [][/\ Sum(inflight', QueueKeys) <= 5
       /\ \A k \in QueueKeys :
            /\ inflight'[k] <= 1
            /\ Occurrences(queue', k) <= 1
            /\ inflight'[k] = 1 => Occurrences(queue', k) = 0
            /\ (inflight[k] = 1 /\ inflight'[k] = 0) =>
                   Occurrences(queue', k) = IF addsDuring[k] > 0 THEN 1 ELSE 0]_vars

\* Five passes run, one more key waits, and a key was enqueued more than
\* once while its pass runs.
PerKeySerializationWitness ==
    /\ Running = 5
    /\ queue # <<>>
    /\ \E k \in QueueKeys : inflight[k] = 1 /\ addsDuring[k] >= 2

\* C8: overlapping Registries. Under any interleaving of the passes of two
\* Registries that select the same Agent, the Cards that name the Agent as
\* their source are at most the one at (Agent namespace, Agent name), and
\* its stored spec and content hash are those of one derivation by one of
\* the two Registries.
OverlapOneCard ==
    LET \* The derivations of the Card of Agent a that a Registry can have produced:
        \* from the Agent as it is or as it was at an earlier resource version.
        Derivations(a) ==
            {GenerateCard(registries[r],
                          [agents[a] EXCEPT !.resourceVersion = v], services, "ok", now) :
                r \in {x \in Registries : registries[x].exists},
                v \in 1..agents[a].resourceVersion}
    IN
    \A a \in AgentIds :
        /\ \A k \in CardKeys :
              (cards[k].exists /\ cards[k].spec.sourceRef.uid = agents[a].uid)
              => k = CardKey(a)
        /\ cards[CardKey(a)].exists =>
              \E d \in Derivations(a) :
                  /\ cards[CardKey(a)].spec = d.spec
                  /\ cards[CardKey(a)].status.hash = d.status.hash

\* The passes of both Registries are running, both have applied the Card of
\* a1, and the Registries stamp different protocol versions.
OverlapOneCardWitness ==
    /\ registries["r1"].spec.a2aVersion # registries["r2"].spec.a2aVersion
    /\ \A r \in Registries :
          pc[r] # "idle" /\ CardKey("a1") \in applied[r] \ failed[r]
    /\ cards[CardKey("a1")].exists

\* C9 as stated: the owner references of a Card that exists stay those of
\* the first Registry that wrote it.
OwnerStaysFirstWriter ==
    [][\A k \in CardKeys :
         cards[k].exists =>
            /\ cards'[k].exists
            /\ cards'[k].ownerReferences = cards[k].ownerReferences]_vars

\* C9 amended: the owner reference goes to the last writer. An accepted
\* apply by a Registry replaces the owner references of the Card by the
\* single controller reference to that Registry, whoever owned the Card
\* before, and a step that is no accepted apply leaves them as they are.
OwnerIsLastWriter ==
    [][LET \* The pass of r has its apply accepted in this step.
           Applies(r) == pc[r] = "apply" /\ pc'[r] # "apply" /\ KeyOf(card[r]) \notin failed'[r]
       IN
       \A k \in CardKeys :
         /\ \A r \in Registries :
               (Applies(r) /\ KeyOf(card[r]) = k) =>
                  /\ Len(cards'[k].ownerReferences) = 1
                  /\ cards'[k].ownerReferences[1].uid = registries[r].uid
                  /\ cards'[k].ownerReferences[1].controller
         /\ (cards[k].exists /\ ~\E r \in Registries : Applies(r) /\ KeyOf(card[r]) = k)
            => cards'[k].ownerReferences = cards[k].ownerReferences]_vars

\* The Card of a1 is owned by r2 although the running pass of r1 has
\* applied it: r2 wrote last.
OwnerIsLastWriterWitness ==
    /\ cards[CardKey("a1")].exists
    /\ cards[CardKey("a1")].ownerReferences[1].name = "r2"
    /\ CardKey("a1") \in applied["r1"] \ failed["r1"]

\* C10: ownership and source linkage. Every stored Card has exactly one
\* owner reference, with controller = true and the name and UID of a
\* Registry that has the Card's Agent in scope; its sourceRef has the kind,
\* name, namespace and UID of that Agent; its name and namespace are the
\* Agent's.
OwnershipAndSource ==
    \A a \in AgentIds :
        LET c == cards[CardKey(a)] IN
        c.exists =>
            /\ Len(c.ownerReferences) = 1
            /\ c.ownerReferences[1].controller
            /\ \E r \in Registries :
                  /\ registries[r].exists
                  /\ InScope(registries[r], a)
                  /\ c.ownerReferences[1].name = registries[r].name
                  /\ c.ownerReferences[1].uid = registries[r].uid
            /\ c.spec.sourceRef.kind = agents[a].kind
            /\ c.spec.sourceRef.name = agents[a].name
            /\ c.spec.sourceRef.namespace = agents[a].namespace
            /\ c.spec.sourceRef.uid = agents[a].uid
            /\ c.name = agents[a].name
            /\ c.namespace = agents[a].namespace
            /\ c.spec.name = agents[a].name

\* Cards exist for both Agents, the one of a1 owned by r1 and the one of
\* a2, in the other namespace, by r2.
OwnershipAndSourceWitness ==
    /\ \A k \in CardKeys : cards[k].exists
    /\ cards[CardKey("a1")].ownerReferences[1].name = "r1"
    /\ cards[CardKey("a2")].ownerReferences[1].name = "r2"

----

\* The Card c has a controller owner reference to the Registry r.
OwnedBy(c, r) ==
    LET UidOf(x) == <<"uid", x>>
    IN
    /\ c.exists
    /\ \E i \in 1..Len(c.ownerReferences) :
          c.ownerReferences[i].uid = UidOf(r) /\ c.ownerReferences[i].controller

\* C11 as stated: once the Registry R is deleted, every Card owned by R is
\* eventually gone, and from the deletion on no step of any pass makes a
\* Card owned by R.
CascadeNoPass ==
    /\ \A r \in Registries :
          (~registries[r].exists) ~> (\A k \in CardKeys : ~OwnedBy(cards[k], r))
    /\ [][\A r \in Registries, k \in CardKeys :
            (~registries[r].exists /\ ~OwnedBy(cards[k], r)) => ~OwnedBy(cards'[k], r)]_vars

\* C11 amended: once the Registry R is deleted, every Card owned by R is
\* eventually gone; a Reconcile for R that finds R deleted starts no pass,
\* leaves the cluster as it is and asks for no requeue; only a pass that
\* had read R before the deletion can still make a Card owned by R.
CascadeNewPass ==
    /\ \A r \in Registries :
          (~registries[r].exists) ~> (\A k \in CardKeys : ~OwnedBy(cards[k], r))
    /\ [][\A r \in Registries :
            (~registries[r].exists /\ pc[r] = "idle") =>
               /\ pc'[r] = "idle"
               /\ \A k \in CardKeys : ~OwnedBy(cards[k], r) => ~OwnedBy(cards'[k], r)
               /\ result'[r] # result[r] =>
                      /\ result'[r] = [err |-> "none", requeueAfter |-> 0, returned |-> TRUE]
                      /\ clusterVars' = clusterVars]_vars

\* The Registry r1 is deleted while its pass, which has applied the Card
\* of a1, is still under way, and the Card is gone again.
CascadeNewPassWitness ==
    /\ ~registries["r1"].exists
    /\ pc["r1"] = "finalize"
    /\ CardKey("a1") \in applied["r1"] \ failed["r1"]
    /\ ~cards[CardKey("a1")].exists

\* The step is a Reconcile of the Registry r that finds auto-discovery off.
DisabledReconcile(r) ==
    /\ pc[r] = "idle"
    /\ registries[r].exists
    /\ ~registries[r].spec.enableAutoDiscovery
    /\ registries'[r].exists
    /\ registries'[r].generation = registries[r].generation
    /\ (registries'[r] # registries[r] \/ result'[r] # result[r])

\* C12: discovery disabled. A pass over a Registry with auto-discovery off
\* sends one status with phase NotStarted, registeredAgents 0 and
\* observedGeneration the Registry's generation (stored unless the API
\* refuses the update), leaves every Card as it is, lists no Agents, and
\* returns without error a requeue after the configured interval, 5
\* minutes when none is configured.
DisabledFrame ==
    [][\A r \in Registries :
         DisabledReconcile(r) =>
            /\ \/ registries'[r].status = registries[r].status
               \/ /\ registries'[r].status.phase = "NotStarted"
                  /\ registries'[r].status.registeredAgents = 0
                  /\ registries'[r].status.observedGeneration = registries[r].generation
            /\ cards' = cards
            /\ pc'[r] = "idle"
            /\ selected'[r] = <<>>
            /\ applied'[r] = {}
            /\ result'[r].returned
            /\ result'[r].err = "none"
            /\ result'[r].requeueAfter =
                  IF registries[r].spec.syncInterval # {}
                  THEN Duration(registries[r].spec.syncInterval)
                  ELSE 300]_vars

\* Auto-discovery of r1 was switched off after a pass had made a Card; the
\* pass that followed has stored NotStarted with count 0 and asked for a
\* requeue after the configured interval; the Card is still there.
DisabledFrameWitness ==
    /\ pc["r1"] = "idle"
    /\ registries["r1"].exists
    /\ ~registries["r1"].spec.enableAutoDiscovery
    /\ registries["r1"].generation = 2
    /\ registries["r1"].status.phase = "NotStarted"
    /\ registries["r1"].status.registeredAgents = 0
    /\ registries["r1"].status.observedGeneration = 2
    /\ result["r1"].requeueAfter = ConfiguredSyncInterval
    /\ \A k \in CardKeys : cards[k].exists

\* C13: pass outcome phase. Whenever a pass over a Registry has returned
\* and none is under way, the stored status.phase is Ready, Error or
\* NotStarted; Discovering is stored only while a pass is under way.
TerminalPhase ==
    \A r \in Registries :
        (registries[r].exists /\ pc[r] = "idle" /\ result[r].returned)
        => registries[r].status.phase \in {"Ready", "Error", "NotStarted"}

\* C14: lastSync. status.lastSync is set only by a status write of a
\* terminal phase, Ready or Error: a step that stores a status with phase
\* NotStarted or Discovering leaves status.lastSync as it was, and as long
\* as no Ready or Error was stored lastSync is not set.
LastSyncTerminal ==
    [][\A r \in Registries :
         (/\ registries[r].exists
          /\ registries'[r].exists
          /\ registries'[r].status # registries[r].status
          /\ registries'[r].status.phase \in {"NotStarted", "Discovering"})
         => registries'[r].status.lastSync = registries[r].status.lastSync]_vars

\* C15: observedGeneration. Whatever the operator's spec edits and the
\* passes do, passes that hold a copy of the Registry overtaken by a spec
\* edit included, the stored status.observedGeneration never decreases and
\* is never larger than the stored generation.
ObservedGenerationTracks ==
    [][\A r \in Registries :
         (registries[r].exists /\ registries'[r].exists) =>
            /\ registries'[r].status.observedGeneration >= registries[r].status.observedGeneration
            /\ registries[r].status.observedGeneration <= registries[r].generation
            /\ registries'[r].status.observedGeneration <= registries'[r].generation]_vars

\* A pass over r1 that read generation 1 stands before its final status
\* write while the stored Registry is at generation 2, and generation 1 is
\* what the status has observed.
ObservedGenerationTracksWitness ==
    /\ pc["r1"] = "finalize"
    /\ reg["r1"].generation = 1
    /\ registries["r1"].generation = 2
    /\ registries["r1"].status.observedGeneration = 1

\* C16: per-Agent error isolation. A step of the pass that fails for one
\* Agent (the Get or the Patch of its Card is refused) moves the loop on to
\* the next Agent and does not count the failed one; the pass reaches its
\* final status write only when the loop has gone through every selected
\* Agent, sends phase Ready there and returns without error.
ErrorIsolation ==
    [][LET \* The keys of the Agents that the loop of the pass of r has gone through.
           Processed(r) == {KeyOf(selected[r][i]) : i \in 1..(idx[r] - 1) \cap 1..Len(selected[r])}
       IN
       \A r \in Registries :
         /\ (pc[r] \in {"card", "apply"} /\ failed'[r] # failed[r]) =>
               /\ idx'[r] = idx[r] + 1
               /\ registeredCount'[r] = registeredCount[r]
               /\ pc'[r] = IF idx[r] < Len(selected[r]) THEN "card" ELSE "finalize"
         /\ pc'[r] = "finalize" => Processed(r)' = SelectedKeys(r)'
         /\ PassReturns(r) =>
               /\ result'[r].err = "none"
               /\ \/ registries'[r] = registries[r]
                  \/ registries'[r].status.phase = "Ready"]_vars

\* The pass of r1 over two Agents stands before its final status write:
\* the step of the first Agent failed, the Card of the second was applied,
\* and one Agent is counted.
ErrorIsolationWitness ==
    /\ pc["r1"] = "finalize"
    /\ Len(selected["r1"]) = 2
    /\ KeyOf(selected["r1"][1]) \in failed["r1"]
    /\ KeyOf(selected["r1"][2]) \in applied["r1"] \ failed["r1"]
    /\ cards[KeyOf(selected["r1"][2])].exists
    /\ registeredCount["r1"] = 1

\* C17: registeredCount. A pass selects only Agents that are in the scope
\* of the Registry, have register-to-registry = "true" and not
\* discovery-disabled = "true"; the status Ready that the pass stores at
\* its end carries as registeredAgents the number of selected Agents whose
\* step returned without error, the Card created, updated or left alone
\* by the dedup fast path.
RegisteredCount ==
    [][\A r \in Registries :
         /\ (pc[r] = "idle" /\ pc'[r] # "idle") =>
               \A k \in SelectedKeys(r)' :
                   \E a \in AgentIds :
                       KeyOf(agents[a]) = k /\ InScope(registries[r], a) /\ Eligible(a)
         /\ PassReturns(r) =>
               /\ registeredCount[r] = Cardinality(SelectedKeys(r) \ failed[r])
               /\ SelectedKeys(r) \ failed[r] = (applied[r] \cup skipped[r]) \ failed[r]
               /\ \/ registries'[r] = registries[r]
                  \/ /\ registries'[r].status.phase = "Ready"
                     /\ registries'[r].status.registeredAgents =
                            Cardinality(SelectedKeys(r) \ failed[r])]_vars

\* The Registry r1 searches both namespaces; a2 carries discovery-disabled;
\* a second pass has left the Card of a1 alone and stored Ready with one
\* registered Agent.
RegisteredCountWitness ==
    /\ registries["r1"].exists
    /\ registries["r1"].spec.namespaceSelector.set
    /\ Has(agents["a2"].annotations, AnnotationDiscoveryDisabled)
    /\ quiet["r1"].set
    /\ quiet["r1"].passes = 2
    /\ quiet["r1"].ok = {CardKey("a1")}
    /\ registries["r1"].status.phase = "Ready"
    /\ registries["r1"].status.registeredAgents = 1

\* C18: enumeration failure. A pass whose enumeration of the Agents
\* failed (the namespaces, the namespace of the Registry, or any one of
\* the matched namespaces could not be listed) goes to its error return
\* and stores phase Error; a pass goes on to the Agents and to Ready only
\* with every selected Agent of its scope enumerated.
EnumerationFailure ==
    [][LET \* The keys of the Agents that an enumeration for the Registry object has
           \* to return: in its scope and carrying the annotations that select them.
           Enumerable(registry) ==
               {KeyOf(agents[a]) : a \in {x \in AgentIds : InScope(registry, x) /\ Eligible(x)}}
       IN
       \A r \in Registries :
         /\ (pc[r] = "idle" /\ pc'[r] \in {"card", "finalize"}) =>
               SelectedKeys(r)' = Enumerable(registries[r])
         /\ (pc[r] = "error" /\ pc'[r] = "idle") =>
               \/ registries'[r] = registries[r]
               \/ registries'[r].status.phase = "Error"]_vars

\* C19: invalid configuration. A pass over a Registry whose
\* namespaceSelector is invalid stores phase Error with a condition
\* message and returns without error, to be requeued after syncInterval.
InvalidConfiguration ==
    [][LET \* The pass of r ends in this step, from its loop or from its error return.
           PassEnds(r) == pc[r] \in {"finalize", "error"} /\ pc'[r] = "idle"
       IN
       \A r \in Registries :
         (PassEnds(r) /\ ~ValidSelector(reg[r].spec.namespaceSelector)) =>
             /\ \/ registries'[r] = registries[r]
                \/ /\ registries'[r].status.phase = "Error"
                   /\ registries'[r].status.conditions # <<>>
             /\ result'[r].err = "none"
             /\ result'[r].requeueAfter = syncInterval(reg[r])]_vars

\* C20: status write failure. Whether or not the API accepts a write of
\* the Registry status, the pass goes on as its code prescribes: the
\* pre-mark is followed by the loop or the error return and is not written
\* again during the loop, the final write is followed by the return with
\* no error and the requeue delay syncInterval, and no write of the status
\* touches a stored Card.
StatusWriteFailure ==
    [][\A r \in Registries :
         /\ (pc[r] = "idle" /\ pc'[r] # "idle") =>
               /\ \/ pc'[r] = "error"
                  \/ pc'[r] = IF selected'[r] = <<>> THEN "finalize" ELSE "card"
               /\ reg'[r].status.phase = "Discovering"
               /\ cards' = cards
         /\ (pc[r] \in {"card", "apply"} /\ registries'[r].exists) =>
               registries'[r].status = registries[r].status
         /\ PassReturns(r) =>
               /\ result'[r] = [err |-> "none",
                                requeueAfter |-> syncInterval(reg[r]),
                                returned |-> TRUE]
               /\ cards' = cards]_vars

\* The pass of r1 has returned without error after applying the Card of
\* a1; its final status write was refused, the stored phase is still the
\* pre-mark.
StatusWriteFailureWitness ==
    /\ pc["r1"] = "idle"
    /\ result["r1"].returned
    /\ result["r1"].err = "none"
    /\ result["r1"].requeueAfter > 0
    /\ registries["r1"].exists
    /\ registries["r1"].status.phase = "Discovering"
    /\ cards[CardKey("a1")].exists

\* C21: Registry absent. A Reconcile whose Registry is not found returns
\* without error and without requeue; a Reconcile whose Get of the
\* Registry fails otherwise returns the error; neither writes a Registry
\* status or a Card, and a key whose Registry is absent starts no pass.
RegistryAbsent ==
    [][LET \* The step is a Reconcile of the key r that ends at the Get of the
           \* Registry: no pass is under way before or after it, and it returns.
           FetchReturns(r) ==
               /\ pc[r] = "idle"
               /\ pc'[r] = "idle"
               /\ result'[r] # result[r]
       IN
       \A r \in Registries :
         /\ FetchReturns(r) =>
               /\ registries' = registries
               /\ cards' = cards
               /\ \/ /\ ~registries[r].exists
                     /\ result'[r] = [err |-> "none", requeueAfter |-> 0, returned |-> TRUE]
                  \/ result'[r] = [err |-> "error", requeueAfter |-> 0, returned |-> TRUE]
         /\ (pc[r] = "idle" /\ ~registries[r].exists) => pc'[r] = "idle"]_vars

\* The Registry r1 was deleted after a pass had applied a Card; the
\* Reconcile that followed found it absent, and the Card is still stored.
RegistryAbsentWitness ==
    /\ ~registries["r1"].exists
    /\ pc["r1"] = "idle"
    /\ result["r1"] = ReturnedNotFound
    /\ cards[CardKey("a1")].exists

\* C22: requeue delay. A Reconcile of an existing Registry that returns
\* without error, auto-discovery on or off, returns as requeue delay the
\* spec.discovery.syncInterval of the Registry object it read when that is
\* set, and 5 minutes (300 s) when it is not.
RequeueDelay ==
    [][\A r \in Registries :
         (PassReturns(r) \/ DisabledReconcile(r)) =>
             LET obj == IF pc[r] = "finalize" THEN reg[r] ELSE registries[r]
             IN /\ result'[r].returned
                /\ result'[r].err = "none"
                /\ result'[r].requeueAfter =
                      IF obj.spec.syncInterval = {}
                      THEN 300
                      ELSE CHOOSE d \in obj.spec.syncInterval : TRUE]_vars

\* The Registry r1 has syncInterval set to zero seconds; its pass has
\* stored Ready and returned the delay zero, the default left aside.
RequeueDelayWitness ==
    /\ registries["r1"].exists
    /\ registries["r1"].spec.syncInterval = {0}
    /\ registries["r1"].status.phase = "Ready"
    /\ pc["r1"] = "idle"
    /\ result["r1"] = [err |-> "none", requeueAfter |-> 0, returned |-> TRUE]

\* C23: periodic resync. Every Reconcile of an existing Registry that
\* returns without error returns a requeue delay of at least 1 second, on
\* which the workqueue hands the key out again without any watch event.
PeriodicResync ==
    [][\A r \in Registries :
         (PassReturns(r) \/ DisabledReconcile(r)) =>
             /\ result'[r].err = "none"
             /\ result'[r].requeueAfter >= 1]_vars

\* C24: discovery scope. The Agents a pass goes through are exactly the
\* selected Agents of the Registry's own namespace when it has no
\* namespaceSelector, and exactly those of the namespaces whose labels
\* match the selector when it has one, the Registry's own namespace among
\* them only if it matches; each Agent appears once.
DiscoveryScope ==
    [][LET \* The namespaces that the Registry object searches.
           Scope(registry) ==
               IF registry.spec.namespaceSelector.set
               THEN {ns \in Namespaces :
                        registry.spec.namespaceSelector.matchLabels \subseteq NamespaceLabels[ns]}
               ELSE {registry.namespace}
       IN
       \A r \in Registries :
         (pc[r] = "idle" /\ pc'[r] # "idle") =>
             /\ SelectedKeys(r)' =
                   {KeyOf(agents[a]) :
                       a \in {x \in AgentIds : /\ agents[x].namespace \in Scope(registries[r])
                                               /\ Eligible(x)}}
             /\ Len(selected'[r]) = Cardinality(SelectedKeys(r)')
             /\ \A i \in 1..Len(selected'[r]) :
                   \E a \in AgentIds : selected'[r][i] = agents[a]]_vars

\* The Registry r1 lives in namespace n and selects the namespaces
\* labelled team=b, which n is not: its pass goes through the Agent a2 of
\* namespace m and leaves out the Agent a1 of its own namespace, which
\* carries the annotations that select it.
DiscoveryScopeWitness ==
    /\ registries["r1"].exists
    /\ registries["r1"].namespace = "n"
    /\ registries["r1"].spec.namespaceSelector = [set |-> TRUE, matchLabels |-> {"team=b"}]
    /\ pc["r1"] = "finalize"
    /\ Eligible("a1")
    /\ SelectedKeys("r1") = {CardKey("a2")}
    /\ cards[CardKey("a2")].exists
    /\ ~cards[CardKey("a1")].exists

\* The Agent object carries register-to-registry = "true".
Carries(agent) ==
    /\ Has(agent.annotations, AnnotationRegisterToRegistry)
    /\ agent.annotations[AnnotationRegisterToRegistry] = "true"

Probes(r) == probe'[r] # probe[r] /\ probe'[r].set /\ probe'[r].invoked

\* C26: prober best-of-N. For a non-empty endpoint list CheckEndpoints
\* goes through the endpoints in list order and returns healthy, with no
\* error, at the first one that answers with a status code in [200, 500),
\* calling no later one; it returns unhealthy, with an error, exactly when
\* every endpoint failed to answer or answered outside [200, 500), after
\* calling all of them.
ProberBestOfN ==
    [][LET \* The endpoints that answered, in the call recorded in p, with a status
           \* code in [200, 500).
           Alive(p) ==
               LET \* What the endpoint i answered in the call recorded in q: nothing, from
                   \* the cancellation of the context on.
                   Answered(q, i) == IF i >= q.cancelAt THEN 0 ELSE q.answers[i]
               IN
               {i \in 1..Len(p.answers) : Answered(p, i) >= 200 /\ Answered(p, i) < 500}
       IN
       \A r \in Registries :
         Probes(r) =>
             LET p == probe'[r]
             IN /\ p.healthy <=> Alive(p) # {}
                /\ p.healthy <=> p.err = ""
                /\ p.healthy => /\ p.calls \in Alive(p)
                                /\ \A i \in Alive(p) : p.calls <= i
                /\ ~p.healthy => p.calls = Len(p.answers)]_vars

\* Of two endpoints the first answered 500 and the second 499: the
\* second call of the prober found the Card healthy.
ProberBestOfNWitness ==
    /\ probe["r1"].set
    /\ probe["r1"].invoked
    /\ probe["r1"].answers = <<500, 499>>
    /\ probe["r1"].cancelAt = 3
    /\ probe["r1"].healthy
    /\ probe["r1"].calls = 2

\* C27: prober cancellation. When the context is cancelled while the
\* endpoints are probed, the prober calls no endpoint after the one under
\* way, and the Card of the step is left with status.endpointHealthy
\* unset, not false.
ProberCancellation ==
    [][\A r \in Registries :
         (Probes(r) /\ probe'[r].cancelled) =>
             /\ probe'[r].calls = probe'[r].cancelAt
             /\ probe'[r].recorded = {}]_vars

\* C28: probe failure is non-fatal. When CheckEndpoints reports the
\* endpoints of a derived Card unhealthy, which it does with an error,
\* the step goes on to the apply; the Card the API takes is stored with
\* status.endpointHealthy = false, its Agent is counted as registered and
\* not as failed, and the loop goes on to the next Agent or to the end of
\* the pass.
ProbeFailureNonFatal ==
    [][\A r \in Registries :
         (Probes(r) /\ ~probe'[r].healthy) =>
             /\ probe'[r].err # ""
             /\ KeyOf(card[r]) \in applied'[r]
             /\ idx'[r] = idx[r] + 1
             /\ pc'[r] = IF idx[r] < Len(selected[r]) THEN "card" ELSE "finalize"
             /\ probe'[r].took =>
                   /\ cards'[KeyOf(card[r])].exists
                   /\ cards'[KeyOf(card[r])].spec = card[r].spec
                   /\ cards'[KeyOf(card[r])].status.endpointHealthy = {FALSE}
                   /\ KeyOf(card[r]) \notin failed'[r]
                   /\ registeredCount'[r] = registeredCount[r] + 1]_vars

\* Neither endpoint of the Card of a1 answered in range; the Card is
\* stored as unhealthy, a1 is counted, and the pass of r1 stands at its
\* second Agent.
ProbeFailureNonFatalWitness ==
    /\ pc["r1"] = "card"
    /\ idx["r1"] = 2
    /\ probe["r1"].set
    /\ probe["r1"].answers = <<0, 500>>
    /\ probe["r1"].err = "all endpoints unhealthy"
    /\ cards[CardKey("a1")].exists
    /\ cards[CardKey("a1")].status.endpointHealthy = {FALSE}
    /\ registeredCount["r1"] = 1
    /\ failed["r1"] = {}

\* The Agent has nothing its endpoints can be derived from: no a2a-endpoint
\* annotation, no A2A config, no Service of its name in its namespace.
NoEndpointSource(agent) ==
    /\ ~Has(agent.annotations, AnnotationA2AEndpoint)
    /\ ~HasA2AConfig(agent)
    /\ ~services[KeyOf(agent)].exists

\* The Card c is one of an Agent without endpoints: an empty endpoint
\* list, a content hash, no health recorded, and no capabilities (whatever
\* the Agent carries when strict, else when the Agent carries no
\* capabilities annotation).
Endpointless(c, agent, strict) ==
    /\ c.exists
    /\ c.spec.endpoints = <<>>
    /\ (strict \/ ~Has(agent.annotations, AnnotationCapabilities))
          => c.spec.capabilities = <<>>
    /\ c.status.hash.alg = "sha256"
    /\ c.status.hash.of # <<>>
    /\ c.status.endpointHealthy = {}

\* What the step of the pass of r does for an Agent without endpoints:
\* the derivation yields its Card unless the stored one carries the same
\* hash, and the apply sends it without a call of the prober.
NoEndpointsCard(r, strict) ==
    (pc[r] \in {"card", "apply"} /\ NoEndpointSource(selected[r][idx[r]])) =>
        LET agent == selected[r][idx[r]]
            key == KeyOf(agent)
        IN /\ (pc[r] = "card" /\ pc'[r] = "apply") =>
                 /\ KeyOf(card'[r]) = key
                 /\ Endpointless(card'[r], agent, strict)
           /\ (pc[r] = "card" /\ idx'[r] # idx[r]) =>
                 /\ key \in skipped'[r]
                 /\ Endpointless(cards[key], agent, strict)
           /\ (pc[r] = "apply" /\ idx'[r] # idx[r]) =>
                 /\ probe'[r].set
                 /\ ~probe'[r].invoked
                 /\ probe'[r].calls = 0
                 /\ probe'[r].recorded = {}
                 /\ key \in applied'[r]
                 /\ probe'[r].took =>
                       /\ Endpointless(cards'[key], agent, strict)
                       /\ cards'[key].spec = card[r].spec
                       /\ key \notin failed'[r]

\* C29 as stated: no endpoints. For a selected Agent with no endpoint
\* annotation, no A2A config and no same-named Service a Card is still
\* produced and applied with an empty endpoint list, an empty capability
\* list and a non-empty status.hash; the prober is not invoked and
\* status.endpointHealthy is left unset.
NoEndpointsAsStated == [][\A r \in Registries : NoEndpointsCard(r, TRUE)]_vars

\* C29: no endpoints. For a selected Agent with no endpoint annotation, no
\* A2A config and no same-named Service a Card is still produced and
\* applied with an empty endpoint list and a non-empty status.hash, and
\* with an empty capability list when the Agent carries no capabilities
\* annotation either; the prober is not invoked and status.endpointHealthy
\* is left unset.
NoEndpoints == [][\A r \in Registries : NoEndpointsCard(r, FALSE)]_vars

\* The pass has applied the Card of the Agent a1, which has no annotation
\* but the one that registers it, no A2A config and no Service, without a
\* call of the prober.
NoEndpointsWitness ==
    /\ idx["r1"] = 2
    /\ NoEndpointSource(agents["a1"])
    /\ ~Has(agents["a1"].annotations, AnnotationCapabilities)
    /\ probe["r1"].set
    /\ ~probe["r1"].invoked
    /\ probe["r1"].took
    /\ Endpointless(cards[CardKey("a1")], agents["a1"], TRUE)
    /\ registeredCount["r1"] = 1

\* C30: endpoint precedence. The endpoint list derived for an Agent is,
\* first match wins, the single entry {annotation URL, "http", port 0}
\* when the a2a-endpoint annotation is present, whatever else exists; a
\* single controller endpoint ending in <namespace>/<name> with port 8083
\* when the Agent declares an A2A config; one entry per port of the
\* Service named like the Agent in its namespace, in port order, with the
\* protocol in lower case; and empty otherwise, the failed lookup of the
\* Service included. The Card a step derives carries that list.
EndpointPrecedence ==
    [][LET \* The list is what the four rules give for the Agent, found telling
           \* whether the lookup of its Service went through.
           FirstMatch(list, agent, found) ==
               LET service == services[KeyOf(agent)] IN
               IF Has(agent.annotations, AnnotationA2AEndpoint)
               THEN list = << [url      |-> agent.annotations[AnnotationA2AEndpoint],
                               protocol |-> "http",
                               port     |-> 0] >>
               ELSE IF agent.spec.declarative.set /\ agent.spec.declarative.a2aConfig.set
               THEN /\ Len(list) = 1
                    /\ list[1].port = 8083
                    /\ list[1].protocol = "http"
                    /\ Len(list[1].url) = 4
                    /\ SubSeq(list[1].url, 2, 4) = <<agent.namespace, "/", agent.name>>
               ELSE IF found /\ service.exists
               THEN /\ Len(list) = Len(service.ports)
                    /\ \A i \in 1..Len(list) :
                          /\ list[i].port = service.ports[i].port
                          /\ list[i].protocol = ToLower(service.ports[i].protocol)
                          /\ list[i].protocol \in {"tcp", "udp", "sctp"}
               ELSE list = <<>>
       IN
       \A r \in Registries :
         (pc[r] = "card" /\ pc'[r] = "apply") =>
             LET agent == selected[r][idx[r]]
             IN /\ \A got \in BOOLEAN :
                      FirstMatch(extractEndpoints(ServicesSeen(services, got), agent),
                                 agent, got)
                /\ \E got \in BOOLEAN :
                      FirstMatch(card'[r].spec.endpoints, agent, got)]_vars

\* The pass has derived the Card of the Agent a1, which carries the
\* a2a-endpoint annotation, declares an A2A config and has a Service with
\* two ports: the Card has the annotation's endpoint alone.
EndpointPrecedenceWitness ==
    /\ pc["r1"] = "apply"
    /\ Has(agents["a1"].annotations, AnnotationA2AEndpoint)
    /\ HasA2AConfig(agents["a1"])
    /\ services[CardKey("a1")].exists
    /\ Len(services[CardKey("a1")].ports) = 2
    /\ KeyOf(card["r1"]) = CardKey("a1")
    /\ card["r1"].spec.endpoints =
          << [url |-> CustomEndpoint, protocol |-> "http", port |-> 0] >>

\* C31: capability precedence. When the capabilities annotation is present
\* the derived capabilities are exactly its comma-separated items, each
\* without the blanks around it, in order, whatever skills the Agent
\* declares; otherwise they are the non-empty skill names of the Agent's
\* A2A config in declared order; otherwise the list is empty.
CapabilityPrecedence ==
    [][\A r \in Registries :
         (pc[r] = "card" /\ pc'[r] = "apply") =>
             LET agent == selected[r][idx[r]]
                 caps == card'[r].spec.capabilities
                 text == agent.annotations[AnnotationCapabilities]
                 commas == {i \in 1..Len(text) : text[i] = ","}
                 \* The item k lies between the cuts k - 1 and k.
                 Cut(k) == IF k = 0 THEN 0
                           ELSE IF k = Cardinality(commas) + 1 THEN Len(text) + 1
                           ELSE CHOOSE i \in commas :
                                   Cardinality({j \in commas : j <= i}) = k
                 Item(k) == SubSeq(text, Cut(k - 1) + 1, Cut(k) - 1)
                 Blank(seq) == \A i \in 1..Len(seq) : seq[i] = " "
                 Trimmed(item, cap) ==
                     /\ \E i \in 1..(Len(item) + 1), j \in 0..Len(item) :
                           /\ cap = SubSeq(item, i, j)
                           /\ Blank(SubSeq(item, 1, i - 1))
                           /\ Blank(SubSeq(item, j + 1, Len(item)))
                     /\ cap # <<>> => cap[1] # " " /\ cap[Len(cap)] # " "
                 d == agent.spec.declarative
                 skills == IF d.set /\ d.a2aConfig.set THEN d.a2aConfig.skills ELSE <<>>
                 named == {i \in 1..Len(skills) : skills[i] # ""}
             IN IF AnnotationCapabilities \in DOMAIN agent.annotations
                THEN /\ Len(caps) = Cardinality(commas) + 1
                     /\ \A k \in 1..Len(caps) : Trimmed(Item(k), caps[k])
                ELSE /\ Len(caps) = Cardinality(named)
                     /\ \A i \in named :
                           caps[Cardinality({j \in named : j <= i})] = skills[i]]_vars

\* The pass has derived the Card of the Agent a1, whose capabilities
\* annotation reads " q, a " and whose A2A config declares the skills chat
\* and plan: the Card has the capabilities q and a.
CapabilityPrecedenceWitness ==
    /\ pc["r1"] = "apply"
    /\ Has(agents["a1"].annotations, AnnotationCapabilities)
    /\ agents["a1"].annotations[AnnotationCapabilities] = <<" ", "q", ",", " ", "a", " ">>
    /\ HasA2AConfig(agents["a1"])
    /\ Len(agents["a1"].spec.declarative.a2aConfig.skills) = 3
    /\ KeyOf(card["r1"]) = CardKey("a1")
    /\ card["r1"].spec.capabilities = << <<"q">>, <<"a">> >>

\* C32: metadata merge. The derived metadata map holds description (when
\* the Agent's description is not empty), modelConfig (when the declarative
\* config has one), tools (the names of the tools that have one, in
\* declared order, joined by commas, when there is any) and, for every
\* annotation whose key starts with the card metadata prefix, the rest of
\* the key with the annotation's value; a key of an annotation overwrites
\* description, modelConfig or tools of the same name, and nothing else is
\* in the map.
MetadataMerge ==
    [][\A r \in Registries :
         (pc[r] = "card" /\ pc'[r] = "apply") =>
             LET agent == selected[r][idx[r]]
                 metadata == card'[r].spec.metadata
                 d == agent.spec.declarative
                 tools == IF d.set THEN d.tools ELSE <<>>
                 NameOf(tool) == IF tool.mcpServer # "" THEN tool.mcpServer ELSE tool.agent
                 named == {i \in 1..Len(tools) : NameOf(tools[i]) # ""}
                 Nth(i) == Cardinality({j \in named : j <= i})
                 noted == {k \in DOMAIN agent.annotations : k[1] = "kagent.dev/card-"}
                 suffixes == {k[2] : k \in noted}
             IN /\ DOMAIN metadata =
                      suffixes
                      \cup (IF agent.spec.description # "" THEN {"description"} ELSE {})
                      \cup (IF d.set /\ d.modelConfig # "" THEN {"modelConfig"} ELSE {})
                      \cup (IF named # {} THEN {"tools"} ELSE {})
                /\ \A k \in noted : metadata[k[2]] = agent.annotations[k]
                /\ "description" \in DOMAIN metadata \ suffixes
                      => metadata["description"] = agent.spec.description
                /\ "modelConfig" \in DOMAIN metadata \ suffixes
                      => metadata["modelConfig"] = d.modelConfig
                /\ "tools" \in DOMAIN metadata \ suffixes
                      => /\ Len(metadata["tools"]) = 2 * Cardinality(named) - 1
                         /\ \A i \in named :
                               /\ metadata["tools"][2 * Nth(i) - 1] = NameOf(tools[i])
                               /\ Nth(i) > 1 => metadata["tools"][2 * Nth(i) - 2] = ","]_vars

\* The pass has derived the Card of the Agent a1, which has the
\* description hello, a model, three tools of which the second has no
\* name, and the annotation card-description: the metadata has the
\* annotation's description, the model and the two tool names.
MetadataMergeWitness ==
    /\ pc["r1"] = "apply"
    /\ agents["a1"].spec.description = "hello"
    /\ KeyOf(card["r1"]) = CardKey("a1")
    /\ DOMAIN card["r1"].spec.metadata = {"description", "modelConfig", "tools"}
    /\ card["r1"].spec.metadata["description"] = "over"
    /\ card["r1"].spec.metadata["modelConfig"] = "gpt"
    /\ card["r1"].spec.metadata["tools"] = <<"m1", ",", "a9">>

\* C33: translator failure is non-fatal. When the translator returns an
\* error or none is configured, the derivation still yields the Card,
\* with an empty public document and the hash of that spec; the step does
\* not fail, the Card the API takes is stored as derived and its Agent
\* counted, and the loop goes on.
TranslatorNonFatal ==
    [][\A r \in Registries :
         LET key == KeyOf(selected[r][idx[r]])
             Plain(c) == /\ c.exists
                         /\ ~c.spec.publicCard.set
                         /\ c.status.hash = [alg |-> "sha256", of |-> Marshal(c.spec)]
                         /\ \A i \in 1..Len(c.status.hash.of) :
                               c.status.hash.of[i][1] # "publicCard"
         IN /\ (pc[r] = "card" /\ (pc'[r] = "apply" \/ idx'[r] # idx[r])) =>
                  /\ key \notin failed'[r]
                  /\ IF pc'[r] = "apply"
                     THEN /\ KeyOf(card'[r]) = key
                          /\ card'[r].spec.publicCard.set \/ Plain(card'[r])
                     ELSE key \in skipped'[r] /\ registeredCount'[r] = registeredCount[r] + 1
            /\ (pc[r] = "apply" /\ idx'[r] # idx[r] /\ Plain(card[r])) =>
                  /\ idx'[r] = idx[r] + 1
                  /\ pc'[r] = IF idx[r] < Len(selected[r]) THEN "card" ELSE "finalize"
                  /\ key \in applied'[r]
                  /\ key \notin failed'[r] =>
                        /\ Plain(cards'[key])
                        /\ cards'[key].spec = card[r].spec
                        /\ registeredCount'[r] = registeredCount[r] + 1]_vars

\* The pass has ended with the Card of the Agent a1 stored without a
\* public document, its hash that of the stored spec, and the Agent
\* counted as registered.
TranslatorNonFatalWitness ==
    /\ pc["r1"] = "idle"
    /\ result["r1"].returned
    /\ cards[CardKey("a1")].exists
    /\ ~cards[CardKey("a1")].spec.publicCard.set
    /\ cards[CardKey("a1")].status.hash = calculateHash(cards[CardKey("a1")].spec)
    /\ registries["r1"].status.registeredAgents = 1
    /\ registries["r1"].status.phase = PhaseReady

\* C34: determinism. Two derivations from the same Registry, Agent and
\* Service give the same Card spec, public document included, and the
\* same status.hash, whenever they are made: the derivation of a step
\* gives the spec and the hash of the Card an earlier pass has stored from
\* the same inputs, the translator having answered alike. Equal specs
\* have equal hashes, and the stored document is the translation of the
\* stored spec.
Determinism ==
    [][\A r \in Registries :
         (pc[r] = "card" /\ (pc'[r] = "apply" \/ idx'[r] # idx[r])) =>
             LET agent == selected[r][idx[r]]
                 stored == cards[KeyOf(agent)]
                 Derive(translate, t) == GenerateCard(reg[r], agent, services, translate, t)
                 Same(c, d) == c.spec = d.spec /\ c.status.hash = d.status.hash
             IN /\ \A translate \in {"ok", "err", "nil"}, t1 \in 1..MaxClock, t2 \in 1..MaxClock :
                      Same(Derive(translate, t1), Derive(translate, t2))
                /\ stored.exists =>
                      LET again == Derive(IF stored.spec.publicCard.set THEN "ok" ELSE "err", now)
                      IN /\ Same(stored, again)
                         /\ stored.spec.publicCard.set =>
                               stored.spec.publicCard =
                                   ToJSON([stored.spec EXCEPT !.publicCard = NoPublicCard])
                         /\ pc'[r] = "apply" =>
                               card'[r].spec.publicCard.set # stored.spec.publicCard.set
                         /\ pc'[r] # "apply" => KeyOf(agent) \in skipped'[r]]_vars

\* A pass at time 2 has derived the Card of the Agent a1 again and has
\* left alone the one stored at time 1.
DeterminismWitness ==
    /\ now = 2
    /\ cards[CardKey("a1")].exists
    /\ cards[CardKey("a1")].status.lastSeen = 1
    /\ cards[CardKey("a1")].spec.publicCard.set
    /\ CardKey("a1") \in skipped["r1"]
    /\ applied["r1"] = {}

----
\* C35: no step of a pass, whatever its outcome, creates, changes or deletes
\* an Agent or a Service, or writes the spec or the metadata of a Registry;
\* what a step of the pass of r writes is at most one Card, by an apply, or
\* the status of the Registry r itself.  (The namespaces are no variable of
\* the model: no action can write them.)
ReadOnlyInputs ==
    [][\A r \in Registries :
         (pc'[r] # pc[r] \/ result'[r] # result[r]) =>
             LET Meta(x) == IF x.exists THEN [x EXCEPT !.status = 0] ELSE x
                 written == {k \in CardKeys : cards'[k] # cards[k]}
             IN /\ agents' = agents
                /\ services' = services
                /\ \A x \in Registries :
                      /\ Meta(registries'[x]) = Meta(registries[x])
                      /\ x # r => registries'[x] = registries[x]
                /\ written # {} =>
                      /\ pc[r] = "apply"
                      /\ written = {<<card[r].namespace, card[r].name>>}
                      /\ registries' = registries
                /\ registries'[r] # registries[r] => pc[r] \in {"idle", "finalize", "error"}]_vars

\* A pass has gone through every outcome's writes: it applied a Card and
\* wrote the final status, and an error pass has written its status too.
ReadOnlyInputsWitness ==
    /\ cards[CardKey("a1")].exists
    /\ registries["r1"].status.phase = PhaseError
    /\ Len(registries["r1"].status.conditions) = 3
    /\ agents = [a \in AgentIds |-> InitialAgent(a)]

----
\* C36: a pass that follows events which changed none of the Agent's labels,
\* annotations, description and declarative config and none of the Service's
\* ports (the only events of SpecTouch) takes the dedup fast path for the
\* Card that is stored for the Agent and sends no apply, whether the version
\* comes from a label or from the resourceVersion.
FalsePositivesAbsorbed ==
    [][\A r \in Registries :
         (/\ pc[r] = "card"
          /\ pc'[r] # "card" \/ idx'[r] # idx[r]
          /\ cards[KeyOf(selected[r][idx[r]])].exists) =>
             /\ pc'[r] # "apply"
             /\ KeyOf(selected[r][idx[r]]) \in skipped'[r]]_vars

----
\* C37: the step that takes the dedup fast path for a Card calls no health
\* probe and sends no apply, and the stored Cards are after it what they
\* were, lastSeen and endpointHealthy included; a stored Card changes only
\* in the apply step of a pass whose dedup test found it missing or of
\* another hash than the derived one.
DedupFrame ==
    [][\A r \in Registries :
         /\ (pc[r] = "card" /\ skipped'[r] # skipped[r]) =>
               LET k == KeyOf(selected[r][idx[r]])
               IN /\ skipped'[r] = skipped[r] \cup {k}
                  /\ cards[k].exists
                  /\ cards' = cards
                  /\ probe' = probe
                  /\ applied' = applied
                  /\ pc'[r] # "apply"
         /\ \A k \in CardKeys :
               (cards'[k] # cards[k] /\ pc'[r] # pc[r]) =>
                  /\ pc[r] = "apply"
                  /\ k = <<card[r].namespace, card[r].name>>
                  /\ k \notin skipped[r]
                  /\ ~cards[k].exists \/ cards[k].status.hash # card[r].status.hash]_vars

\* A later pass has skipped the Card that was stored at an earlier time and
\* probed then; it has run no probe, and the Card is as it was stored.
DedupFrameWitness ==
    /\ now = 2
    /\ CardKey("a1") \in skipped["r1"]
    /\ agents["a1"].resourceVersion = 2
    /\ cards[CardKey("a1")].exists
    /\ cards[CardKey("a1")].status.lastSeen = 1
    /\ cards[CardKey("a1")].status.endpointHealthy = {FALSE}
    /\ ~probe["r1"].set

----
\* C38: the controller owner reference of every stored Card names a Registry
\* that lives in the namespace of the Card, whatever the scope of the
\* Registry.
OwnerInCardNamespace ==
    \A k \in CardKeys :
        cards[k].exists =>
            \A i \in 1..Len(cards[k].ownerReferences) :
                \E r \in Registries :
                    /\ registries[r].exists
                    /\ registries[r].name = cards[k].ownerReferences[i].name
                    /\ registries[r].uid = cards[k].ownerReferences[i].uid
                    /\ registries[r].namespace = cards[k].namespace

----
\* C39: when two Registries select the same unchanged Agent, with the same
\* or with different protocol versions, there comes a state from which on
\* no pass of either Registry sends an apply for that Agent's Card: every
\* later pass takes the dedup fast path for it.
QuiescenceUnderOverlap ==
    <>[][\A r \in Registries :
           ~(/\ pc[r] = "card"
             /\ pc'[r] = "apply"
             /\ KeyOf(selected[r][idx[r]]) = CardKey("a1"))]_vars

----
\* C40 as stated: the stored conditions hold at most one condition per type,
\* and a status write that the API takes replaces or appends in the stored
\* list the condition of the type of the phase written and nothing else:
\* the conditions of the other types stay as they were stored.
ConditionsPerWrite ==
    [][\A r \in Registries :
         (/\ registries[r].exists /\ registries'[r].exists
          /\ registries'[r].status # registries[r].status) =>
            LET old == registries[r].status.conditions
                new == registries'[r].status.conditions
                phase == registries'[r].status.phase
                t == IF phase = PhaseError THEN AgentRegistryConditionTypeError
                     ELSE IF phase = PhaseDiscovering THEN AgentRegistryConditionTypeDiscovering
                     ELSE AgentRegistryConditionTypeReady
            IN /\ \A i, j \in 1..Len(new) : new[i].type = new[j].type => i = j
               /\ Len(old) <= Len(new) /\ Len(new) <= Len(old) + 1
               /\ \A i \in 1..Len(old) :
                     /\ new[i].type = old[i].type
                     /\ old[i].type # t => new[i] = old[i]
               /\ Len(new) = Len(old) + 1 => new[Len(new)].type = t]_vars

\* C40: the stored conditions hold at most one condition per type, in the
\* order of their first appearance, and none is ever removed.  A status
\* write replaces or appends, in the list the pass holds, the condition of
\* the type of the phase written and nothing else; a write that the API
\* takes stores the list the pass holds, so it changes the stored condition
\* of that type and, when the Discovering write of the same pass was
\* refused, the Discovering condition too, and no other.
ConditionsList ==
    [][\A r \in Registries :
         (/\ registries[r].exists /\ registries'[r].exists
          /\ registries'[r].status # registries[r].status) =>
            LET old == registries[r].status.conditions
                new == registries'[r].status.conditions
                held == IF pc[r] = "idle" THEN old ELSE reg[r].status.conditions
                phase == registries'[r].status.phase
                t == IF phase = PhaseError THEN AgentRegistryConditionTypeError
                     ELSE IF phase = PhaseDiscovering THEN AgentRegistryConditionTypeDiscovering
                     ELSE AgentRegistryConditionTypeReady
                carried == IF held # old THEN {AgentRegistryConditionTypeDiscovering} ELSE {}
            IN /\ \A i, j \in 1..Len(new) : new[i].type = new[j].type => i = j
               /\ Len(old) <= Len(new)
               /\ \A i \in 1..Len(old) :
                     /\ new[i].type = old[i].type
                     /\ old[i].type \notin {t} \cup carried => new[i] = old[i]
               /\ \A i \in (Len(old) + 1)..Len(new) : new[i].type \in {t} \cup carried
               /\ Len(held) <= Len(new) /\ Len(new) <= Len(held) + 1
               /\ \A i \in 1..Len(held) :
                     /\ new[i].type = held[i].type
                     /\ held[i].type # t => new[i] = held[i]
               /\ Len(new) = Len(held) + 1 => new[Len(new)].type = t]_vars

\* The three conditions are stored; the Error condition has been replaced
\* for the second generation, the Ready condition is still that of the first.
ConditionsListWitness ==
    /\ registries["r1"].exists
    /\ registries["r1"].status.phase = PhaseError
    /\ Len(registries["r1"].status.conditions) = 3
    /\ \E i, j \in 1..3 :
          /\ registries["r1"].status.conditions[i].type = AgentRegistryConditionTypeError
          /\ registries["r1"].status.conditions[i].observedGeneration = 2
          /\ registries["r1"].status.conditions[j].type = AgentRegistryConditionTypeReady
          /\ registries["r1"].status.conditions[j].observedGeneration = 1


====
